---- MODULE Spec2Model ----
\* Timer / interrupt engine of the 15 Minute Time Tracker extension:
\* the background service worker (src/unnamed/part_000), the popup's label
\* submission (src/popup.js) and the time-block log (src/ICONS.md).
\*
\* Every action is one run-to-completion slice of a handler: it starts with
\* the completion of the awaited chrome.* call and runs the synchronous code
\* up to the next await.  chrome.storage.local, chrome.alarms, the badge and
\* the notification are shared state that outlives the service worker.
EXTENDS Integers, Sequences, FiniteSets, TLC

VARIABLES
  now,           \* Date.now(), in milliseconds
  isRunning,     \* storage: isRunning
  timerStart,    \* storage: timerStart (0 stands for null/undefined)
  pendingBlock,  \* storage: pendingBlock (NoBlock stands for null/undefined)
  timeBlocks,    \* storage: timeBlocks, the log
  alarm,         \* chrome.alarms: `when` of timeTrackerInterrupt, 0 when absent
  alarmQ,        \* alarms.clear callbacks not yet run, each holding its targetTime
  badge,         \* chrome.action badge text
  notification,  \* whether notification timeBlockInterrupt is on screen
  chk,           \* checkTimerState run of initialize() or of the periodic check
  alh,           \* onAlarm listener run
  ub,            \* updateBadge run
  en,            \* ensureNotificationExists run
  startH,        \* onMessage startTimer run
  stopH,         \* onMessage stopTimer run
  sched,         \* onMessage scheduleNextInterrupt runs, one per sending popup
  popup,         \* the popup surfaces
  run,           \* history: the storage seen when the current checkTimerState began
  op,            \* history: the message being handled, the state it found, its response
  currentDay,    \* storage: currentDay (0 stands for undefined)
  blockTags,     \* storage: timeBlocks, the label, note and dailyPriority of each block
  dailyPriority, \* storage: dailyPriority, the priority of each day ("" stands for none)
  needsPriority, \* storage: needsPriority
  customLabels,  \* storage: customLabels
  form           \* the input fields and the last alert of each popup

vars == <<now, isRunning, timerStart, pendingBlock, timeBlocks, alarm, alarmQ,
          badge, notification, chk, alh, ub, en, startH, stopH, sched, popup, run, op,
          currentDay, blockTags, dailyPriority, needsPriority, customLabels, form>>

\* the daily priority, the label set and the popups' input fields
inputVars == <<currentDay, blockTags, dailyPriority, needsPriority, customLabels, form>>

----
\* Program constants

INTERRUPT_INTERVAL == 15 * 60 * 1000

ALARM_NAME == "timeTrackerInterrupt"

DEFAULT_LABELS == <<"Work", "Meetings", "Break", "Planning", "Other">>

NOTE_CHAR_LIMIT == 100

LabelNameLimit == 50

DayMs == 24 * 60 * 60 * 1000

----
\* Bounds of the model

TickMs == 450000

MaxTicks == 3

MaxBlocks == 2

MaxActive == 2

\* the labels of the settings list the user edits are its first MaxEditIndex
MaxEditIndex == 2

\* the insights are computed for logs of at most MaxInsightBlocks blocks
MaxInsightBlocks == 6

\* the blocks of a log the daily review is shown for: a label with one hour
\* beside a dominant label with one hour, and a block of a third label
MaxDailyBlocks == 9

\* the blocks of one day in a log the weekly review is shown for
MaxDayBlocks == 3

\* on two surfaces, labels are added and deleted while the label set differs
\* from the default set's size by less than MaxLabelDrift
MaxLabelDrift == 1

Popups == {"p1", "p2"}

----
\* Values

NoBlock == [start |-> 0, end |-> 0]

Block(s, e) == [start |-> s, end |-> e]

IdleTask == [pc |-> "idle", blk |-> NoBlock]

IdleMsg == [pc |-> "idle", now |-> 0]

ClosedPopup ==
  [screen |-> "closed", pc |-> "idle", pendingBlock |-> NoBlock, blocks |-> <<>>,
   running |-> FALSE]

NoRun == [case |-> "none", origin |-> "none", at |-> 0, ts |-> 0]

NoOp ==
  [action |-> "none", by |-> "", result |-> "none", at |-> 0, running |-> FALSE,
   ts |-> 0, alarm |-> 0, pending |-> NoBlock, blocks |-> <<>>]

\* A text typed into an input field: its content without the surrounding
\* whitespace (core, a name standing for a string of CoreLen characters) and
\* the number of whitespace characters around it (pad)
Cores == {"", "Work", "Deep", "L50", "L51", "N100", "N101"}

CoreLen(c) ==
  CASE c = "" -> 0
    [] c = "Work" -> 4
    [] c = "Deep" -> 4
    [] c = "Plan" -> 4
    [] c = "Ship" -> 4
    [] c = "Meetings" -> 8
    [] c = "Break" -> 5
    [] c = "Planning" -> 8
    [] c = "Other" -> 5
    [] c = "null" -> 4
    [] c = "L50" -> 50
    [] c = "L51" -> 51
    [] c = "N100" -> 100
    [] c = "N101" -> 101

Text(c, k) == [core |-> c, pad |-> k]

EmptyText == Text("", 0)

\* String.prototype.trim and String.prototype.length
Trim(t) == [t EXCEPT !.pad = 0]

Length(t) == CoreLen(t.core) + t.pad

\* the texts the user types into the priority, note and label-name fields
PriorityTexts == {Text("", 0), Text("", 1), Text("Deep", 0), Text("Deep", 1)}

NoteTexts == {Text("", 0), Text("N100", 0), Text("N100", 1), Text("N101", 0)}

NameTexts ==
  {Text("", 1), Text("Work", 1), Text("Deep", 0), Text("L50", 0), Text("L51", 0)}

\* customLabels before any label set has been saved
NoLabels == [stored |-> FALSE, list |-> <<>>]

\* the input fields of a popup that has just been opened, and its document's
\* DEFAULT_LABELS array (popup.js line 6), which getLabels hands out
EmptyForm ==
  [selectedLabel |-> "", note |-> EmptyText, priority |-> EmptyText,
   newLabel |-> EmptyText, editIndex |-> 0, editName |-> "", editText |-> EmptyText,
   labels |-> <<>>, alert |-> "", todayPriority |-> "", tags |-> <<>>,
   rendered |-> <<>>, delIndex |-> 0, priorities |-> [d \in {} |-> ""],
   insight |-> [kind |-> "none"], weekly |-> [kind |-> "none"],
   defaults |-> DEFAULT_LABELS]

\* the label, note and dailyPriority fields of a TimeBlock ("" stands for null)
Tag(l, n, d) == [label |-> l, note |-> n, dailyPriority |-> d]

\* new Date().toDateString(), as the number of the day
Today == now \div DayMs + 1

Yesterday == Today - 1

\* the days the dailyPriority object may have an entry for
Days == {Yesterday, Today}

\* the dailyPriority object with t as today's and y as yesterday's entry
Priorities(t, y) == [d \in Days |-> IF d = Today THEN t ELSE y]

\* getTodayPriority: priorities[today] || null
GetTodayPriority == dailyPriority[Today]

\* getLabels
GetLabels == IF customLabels.stored THEN customLabels.list ELSE DEFAULT_LABELS

\* getLabels() in popup p: the stored list (a copy), or, when none is stored,
\* the popup document's DEFAULT_LABELS array itself
LabelsOf(p) == IF customLabels.stored THEN customLabels.list ELSE form[p].defaults

\* the popup document's DEFAULT_LABELS array after the array getLabels()
\* returned has been changed in place to list
DefaultsAfter(p, list) == IF customLabels.stored THEN form[p].defaults ELSE list

\* Array.prototype.includes
Includes(list, c) == \E i \in 1..Len(list) : list[i] = c

\* labels[index] = newName: an index past the end leaves holes, stored as null
SetAt(list, i, v) ==
  [k \in 1..(IF i > Len(list) THEN i ELSE Len(list)) |->
     IF k = i THEN v ELSE IF k <= Len(list) THEN list[k] ELSE "null"]

\* labels.splice(index, 1)
Splice(list, i) ==
  [k \in 1..(IF i <= Len(list) THEN Len(list) - 1 ELSE Len(list)) |->
     IF k < i THEN list[k] ELSE list[k + 1]]

NameTakenNever(list, c) == FALSE

\* labels.includes(labelName)
NameTaken(list, c) == Includes(list, c)

----
\* The insights of utils.js.  Hours are multiples of 0.25 and are kept as a
\* number of hundredths: 75 stands for 0.75.

\* new Date(block.start).toDateString(), as the number of the day
BlockDay(b) == b.start \div DayMs + 1

\* the indexes of the log in ascending order
Indexes == [i \in 1..Len(timeBlocks) |-> i]

TodayBlocksUnfiltered == Indexes

\* getTodayBlocks, as indexes of the log
TodayBlocks == SelectSeq(Indexes, LAMBDA i : BlockDay(timeBlocks[i]) = Today)

\* getWeekBlocks, as indexes of the log: start at or after midnight seven days ago
WeekBlocks == SelectSeq(Indexes, LAMBDA i : BlockDay(timeBlocks[i]) >= Today - 7)

\* block.label of the blocks at the indexes
LabelsAt(idx) == [k \in 1..Len(idx) |-> blockTags[idx[k]].label]

\* the property names of an object in insertion order: each name at its first
\* occurrence
RECURSIVE FirstOccurrences(_)
FirstOccurrences(names) ==
  IF names = <<>> THEN <<>>
  ELSE LET front == FirstOccurrences(SubSeq(names, 1, Len(names) - 1))
           last == names[Len(names)]
       IN IF Includes(front, last) THEN front ELSE Append(front, last)

\* Object.keys(labelCounts): the labels of the set, then the labels of the
\* blocks that are not in the set, in the order the blocks have them
LabelKeys(labels, blockLabels) == FirstOccurrences(labels \o blockLabels)

\* labelCounts[label]
LabelCount(blockLabels, l) == Cardinality({k \in 1..Len(blockLabels) : blockLabels[k] = l})

\* labelCounts[label] * 0.25
LabelHours(blockLabels, l) == 25 * LabelCount(blockLabels, l)

\* Object.keys(labelHours).reduce((a, b) => labelHours[a] > labelHours[b] ? a : b)
RECURSIVE ReduceDominant(_, _)
ReduceDominant(keys, blockLabels) ==
  IF Len(keys) = 1 THEN keys[1]
  ELSE LET a == ReduceDominant(SubSeq(keys, 1, Len(keys) - 1), blockLabels)
           b == keys[Len(keys)]
       IN IF LabelHours(blockLabels, a) > LabelHours(blockLabels, b) THEN a ELSE b

\* String.prototype.toLowerCase of a label
ToLowerCase(l) ==
  CASE l = "Work" -> "work"
    [] l = "Meetings" -> "meetings"
    [] l = "Break" -> "break"
    [] l = "Planning" -> "planning"
    [] l = "Other" -> "other"
    [] l = "Deep" -> "deep"
    [] l = "Constructor" -> "constructor"
    [] OTHER -> l

\* priorityKeywords[dominantLower] || []
PriorityKeywords(lower) ==
  CASE lower = "work" ->
         {"work", "task", "project", "complete", "finish", "deliver", "code", "build", "create"}
    [] lower = "meetings" ->
         {"meeting", "call", "sync", "discuss", "collaborate", "team", "standup", "review"}
    [] lower = "break" ->
         {"break", "rest", "lunch", "pause", "recharge", "refresh", "relax"}
    [] lower = "planning" ->
         {"plan", "organize", "review", "strategize", "prepare", "schedule", "prioritize"}
    [] lower = "other" -> {"other", "misc", "admin", "email", "message", "chat"}
    [] OTHER -> {}

\* the keywords k with priority.toLowerCase().includes(k), for the priority
\* texts of the model
KeywordsIn(priority) ==
  CASE priority = "Finish the client report" -> {"finish"}
    [] priority = "Plan" -> {"plan"}
    [] priority = "Take a break" -> {"break"}
    [] priority = "Team sync" -> {"team", "sync"}
    [] OTHER -> {}

\* the lower-case names for which priorityKeywords[name] is not one of the five
\* lists and not undefined: a property the object literal inherits from
\* Object.prototype.  Its value has no method `some`, and calling
\* relevantKeywords.some throws a TypeError.
InheritedNames == {"constructor"}

\* relevantKeywords.some(...) throws for the dominant label
SomeThrows(label) == ToLowerCase(label) \in InheritedNames

\* relevantKeywords.some(keyword => priorityLower.includes(keyword))
PriorityMatchesLabel(priority, label) ==
  PriorityKeywords(ToLowerCase(label)) \cap KeywordsIn(priority) # {}

SecondLabelUnsorted(keys, blockLabels, dominant) ==
  LET rest == SelectSeq(keys, LAMBDA l : l # dominant /\ LabelHours(blockLabels, l) > 0)
  IN IF rest = <<>> THEN "" ELSE rest[1]

\* Object.entries(labelHours).sort((a, b) => b[1] - a[1]).filter(...)[0]: the
\* first key with the most hours among the keys other than the dominant one
\* that have hours ("" when there is none)
RECURSIVE SecondLabel(_, _, _)
SecondLabel(keys, blockLabels, dominant) ==
  IF keys = <<>> THEN ""
  ELSE LET a == SecondLabel(SubSeq(keys, 1, Len(keys) - 1), blockLabels, dominant)
           b == keys[Len(keys)]
       IN IF b = dominant \/ LabelHours(blockLabels, b) = 0 THEN a
          ELSE IF a = "" THEN b
          ELSE IF LabelHours(blockLabels, b) > LabelHours(blockLabels, a) THEN b ELSE a

ToFixed1Truncates(hundredths) == hundredths \div 10

\* Number.prototype.toFixed(1) of a multiple of 0.25, as a number of tenths:
\* the nearest tenth, the larger one of two that are equally near
ToFixed1(hundredths) == (hundredths + 5) \div 10

\* the sentence of generateDailyInsight: `but` tells the two templates apart,
\* hours is the text of toFixed(1) as a number of tenths
Sentence(priority, but, tenths, lower) ==
  [kind |-> "sentence", priority |-> priority, but |-> but, hours |-> tenths, label |-> lower]

NullInsight == [kind |-> "null"]

\* generateDailyInsight or generateWeeklyInsights has thrown a TypeError
TypeErrorInsight == [kind |-> "TypeError"]

\* generateDailyInsight for the priority, the labels of the blocks and the
\* label set it has read
DailyInsightOf(priority, blockLabels, labels) ==
  IF priority = "" \/ blockLabels = <<>> THEN NullInsight
  ELSE LET keys == LabelKeys(labels, blockLabels)
           dominantLabel == ReduceDominant(keys, blockLabels)
           second == SecondLabel(keys, blockLabels, dominantLabel)
       IN IF SomeThrows(dominantLabel) THEN TypeErrorInsight
          ELSE IF PriorityMatchesLabel(priority, dominantLabel)
          THEN IF second # "" /\ LabelHours(blockLabels, second) >= 100
               THEN Sentence(priority, TRUE, ToFixed1(LabelHours(blockLabels, second)),
                             ToLowerCase(second))
               ELSE Sentence(priority, FALSE,
                             ToFixed1(LabelHours(blockLabels, dominantLabel)),
                             ToLowerCase(dominantLabel))
          ELSE Sentence(priority, TRUE, ToFixed1(LabelHours(blockLabels, dominantLabel)),
                        ToLowerCase(dominantLabel))

\* generateDailyInsight
GenerateDailyInsight == DailyInsightOf(GetTodayPriority, LabelsAt(TodayBlocks), GetLabels)

SortByStartKeepsLogOrder(idx) == idx

\* blocks.sort((a, b) => new Date(a.start) - new Date(b.start)) on indexes of
\* the log: a stable sort, blocks of equal start keep their order
RECURSIVE SortByStart(_)
SortByStart(idx) ==
  IF idx = <<>> THEN <<>>
  ELSE LET front == SortByStart(SubSeq(idx, 1, Len(idx) - 1))
           last == idx[Len(idx)]
           keep == Cardinality({k \in 1..Len(front) :
                                  timeBlocks[front[k]].start <= timeBlocks[last].start})
       IN SubSeq(front, 1, keep) \o <<last>> \o SubSeq(front, keep + 1, Len(front))

\* breakLabel
BreakLabel(labels) ==
  IF Includes(labels, "Break") THEN "Break"
  ELSE IF Includes(labels, "Other") THEN "Other"
  ELSE labels[Len(labels)]

\* the forEach over sortedBlocks: <<longestStreak, currentStreak>> after the
\* blocks with these labels
RECURSIVE Streaks(_, _)
Streaks(blockLabels, breakLabel) ==
  IF blockLabels = <<>> THEN <<0, 0>>
  ELSE LET before == Streaks(SubSeq(blockLabels, 1, Len(blockLabels) - 1), breakLabel)
       IN IF blockLabels[Len(blockLabels)] = breakLabel
          THEN <<IF before[2] + 1 > before[1] THEN before[2] + 1 ELSE before[1],
                 before[2] + 1>>
          ELSE <<before[1], 0>>

\* the day groups of the week's blocks, in the order the days first occur
DayKeys(idx) == FirstOccurrences([k \in 1..Len(idx) |-> BlockDay(timeBlocks[idx[k]])])

\* dayGroups[day], as indexes of the log
DayBlocks(idx, day) == SelectSeq(idx, LAMBDA i : BlockDay(timeBlocks[i]) = day)

NoMismatch == [day |-> 0, priority |-> "", actual |-> "", hours |-> 0]

RECURSIVE BiggestMismatchLastWins(_, _, _)
BiggestMismatchLastWins(days, idx, labels) ==
  IF days = <<>> THEN NoMismatch
  ELSE LET before == BiggestMismatchLastWins(SubSeq(days, 1, Len(days) - 1), idx, labels)
           day == days[Len(days)]
           dayPriority == IF day \in Days THEN dailyPriority[day] ELSE ""
           dayLabels == LabelsAt(DayBlocks(idx, day))
           dominantLabel == ReduceDominant(LabelKeys(labels, dayLabels), dayLabels)
       IN IF dayPriority = "" THEN before
          ELSE IF PriorityMatchesLabel(dayPriority, dominantLabel) THEN before
          ELSE IF LabelHours(dayLabels, dominantLabel) >= before.hours
               THEN [day |-> day, priority |-> dayPriority, actual |-> dominantLabel,
                     hours |-> LabelHours(dayLabels, dominantLabel)]
               ELSE before

\* the forEach over the day groups: biggestMismatch after these days
RECURSIVE BiggestMismatch(_, _, _)
BiggestMismatch(days, idx, labels) ==
  IF days = <<>> THEN NoMismatch
  ELSE LET before == BiggestMismatch(SubSeq(days, 1, Len(days) - 1), idx, labels)
           day == days[Len(days)]
           dayPriority == IF day \in Days THEN dailyPriority[day] ELSE ""
           dayLabels == LabelsAt(DayBlocks(idx, day))
           dominantLabel == ReduceDominant(LabelKeys(labels, dayLabels), dayLabels)
       IN IF dayPriority = "" THEN before
          ELSE IF PriorityMatchesLabel(dayPriority, dominantLabel) THEN before
          ELSE IF LabelHours(dayLabels, dominantLabel) > before.hours
               THEN [day |-> day, priority |-> dayPriority, actual |-> dominantLabel,
                     hours |-> LabelHours(dayLabels, dominantLabel)]
               ELSE before

\* the forEach over the day groups throws: relevantKeywords.some throws for
\* the dominant label of a day that has a priority
MismatchThrows(idx, labels) ==
  \E k \in 1..Len(DayKeys(idx)) :
    LET day == DayKeys(idx)[k]
        dayLabels == LabelsAt(DayBlocks(idx, day))
    IN /\ day \in Days
       /\ dailyPriority[day] # ""
       /\ SomeThrows(ReduceDominant(LabelKeys(labels, dayLabels), dayLabels))

\* generateWeeklyInsights (the suggestion, drawn at random, is left out)
GenerateWeeklyInsights ==
  IF MismatchThrows(WeekBlocks, GetLabels) THEN TypeErrorInsight
  ELSE [kind |-> "weekly",
        biggestMismatch |-> BiggestMismatch(DayKeys(WeekBlocks), WeekBlocks, GetLabels),
        longestAvoidanceStreak |->
          25 * Streaks(LabelsAt(SortByStart(WeekBlocks)), BreakLabel(GetLabels))[1]]

\* initializePopup: the screen it shows
InitialScreen ==
  IF needsPriority THEN "priorityPrompt"
  ELSE IF pendingBlock # NoBlock THEN "tagging" ELSE "menu"

----
\* checkTimerState's test, line 130

DueStrict(elapsed) == elapsed > INTERRUPT_INTERVAL

Due(elapsed) == elapsed >= INTERRUPT_INTERVAL

RemainingTargetFresh(ts) == now + INTERRUPT_INTERVAL

\* checkTimerState's remaining time, lines 135-136
RemainingTarget(ts) == now + (INTERRUPT_INTERVAL - (now - ts))

\* scheduleNextInterrupt(targetTime): alarms.clear is issued at once, and its
\* callback, which creates the alarm, runs later
ScheduleNextInterrupt(targetTime) ==
  /\ alarm' = 0
  /\ alarmQ' = Append(alarmQ, targetTime)

\* triggerInterrupt lines 182-186: the block it is about to store
TriggerBlock == Block(IF timerStart # 0 THEN timerStart ELSE now, now)

\* triggerInterrupt lines 190-234: store the block, badge, notification
TriggerStore(blk) ==
  /\ pendingBlock' = blk
  /\ badge' = "!"
  /\ notification' = TRUE

\* history: what a checkTimerState starting now is facing, in the words of
\* section 4.1 ("due": 15 minutes or more since timerStart, "early": less)
RunCase ==
  IF isRunning /\ pendingBlock = NoBlock /\ timerStart # 0
  THEN (IF now - timerStart >= 900000 THEN "due" ELSE "early")
  ELSE "none"

\* history: a message arriving now, with no alarms.clear callback outstanding,
\* and the persisted state and the alarm it finds
OpBegin(a) ==
  IF alarmQ = <<>>
  THEN [action |-> a, by |-> "", result |-> "pending", at |-> now, running |-> isRunning,
        ts |-> timerStart, alarm |-> alarm, pending |-> pendingBlock,
        blocks |-> timeBlocks]
  ELSE NoOp

\* history: sendResponse({success: ...}) of the handler of message a
OpResult(a, r) == IF op.action = a THEN [op EXCEPT !.result = r] ELSE NoOp

\* history: popup p's handler of the input a (a button of one of its screens)
\* starts
OpInput(a, p) == [NoOp EXCEPT !.action = a, !.by = p]

\* history: a step of the handler of message a that does not respond yet
OpKeep(a) == IF op.action = a THEN op ELSE NoOp

\* the handlers that are between two of their awaits, and the alarms.clear
\* callbacks that have not run yet
Busy(t) == IF t.pc = "idle" THEN 0 ELSE 1

PopupsBusy == Cardinality({p \in Popups : popup[p].pc # "idle"})

Active ==
  Busy(chk) + Busy(alh) + Busy(startH) + Busy(stopH)
  + Cardinality({p \in Popups : sched[p].pc # "idle"}) + PopupsBusy + Len(alarmQ)

----
\* The extension has been installed and has run today, today's priority has
\* been declared, the timer has not been started
Init ==
  /\ now = TickMs
  /\ isRunning = FALSE
  /\ timerStart = 0
  /\ pendingBlock = NoBlock
  /\ timeBlocks = <<>>
  /\ alarm = 0
  /\ alarmQ = <<>>
  /\ badge = ""
  /\ notification = FALSE
  /\ chk = IdleTask
  /\ alh = IdleTask
  /\ ub = "idle"
  /\ en = "idle"
  /\ startH = IdleMsg
  /\ stopH = IdleMsg
  /\ sched = [p \in Popups |-> IdleMsg]
  /\ popup = [p \in Popups |-> ClosedPopup]
  /\ run = NoRun
  /\ op = NoOp
  /\ currentDay = Today
  /\ blockTags = <<>>
  /\ dailyPriority = Priorities("Deep", "")
  /\ needsPriority = FALSE
  /\ customLabels = NoLabels
  /\ form = [p \in Popups |-> EmptyForm]

----
\* The clock.  A handler's awaited chrome.* calls complete within milliseconds
\* and the main menu polls the timer state every second: on the scale of a
\* tick, time passes between handlers, not inside one, and the menu is up to date.

Tick ==
  /\ Active = 0
  /\ \A p \in Popups : popup[p].screen = "menu" => popup[p].running = isRunning
  /\ now + TickMs <= MaxTicks * TickMs
  /\ now' = now + TickMs
  /\ UNCHANGED <<isRunning, timerStart, pendingBlock, timeBlocks, alarm, alarmQ,
                 badge, notification, chk, alh, ub, en, startH, stopH, sched, popup>>
  /\ run' = NoRun
  /\ op' = NoOp
  /\ UNCHANGED inputVars

----
\* Service worker start: the in-memory runs and callbacks are gone, storage,
\* alarm, badge and notification stay; initialize(), updateBadge() and
\* ensureNotificationExists() are called

Restart ==
  /\ PopupsBusy < MaxActive
  /\ chk' = [pc |-> "daily", blk |-> NoBlock]
  /\ alh' = IdleTask
  /\ ub' = "get"
  /\ en' = "get"
  /\ startH' = IdleMsg
  /\ stopH' = IdleMsg
  /\ sched' = [p \in Popups |-> IdleMsg]
  /\ alarmQ' = <<>>
  /\ run' = [case |-> RunCase, origin |-> "init", at |-> now, ts |-> timerStart]
  /\ op' = NoOp
  /\ UNCHANGED inputVars
  /\ UNCHANGED <<now, isRunning, timerStart, pendingBlock, timeBlocks, alarm,
                 badge, notification, popup>>

PeriodicCheckWithoutTimer ==
  /\ ub' = "get"
  /\ en' = "get"
  /\ UNCHANGED <<now, isRunning, timerStart, pendingBlock, timeBlocks, alarm, alarmQ,
                 badge, notification, chk, alh, startH, stopH, sched, popup, run, op>>
  /\ UNCHANGED inputVars

\* setInterval callback, every minute
PeriodicCheck ==
  /\ chk.pc = "idle"
  /\ Active < MaxActive
  /\ chk' = [pc |-> "get", blk |-> NoBlock]
  /\ ub' = "get"
  /\ en' = "get"
  /\ run' = [case |-> RunCase, origin |-> "sweep", at |-> now, ts |-> timerStart]
  /\ op' = NoOp
  /\ UNCHANGED inputVars
  /\ UNCHANGED <<now, isRunning, timerStart, pendingBlock, timeBlocks, alarm, alarmQ,
                 badge, notification, alh, startH, stopH, sched, popup>>

\* initialize(): checkDailyPriority() has completed (on a new day currentDay is
\* written, and needsPriority when today has no priority), checkTimerState() is
\* called
InitializeDaily ==
  /\ chk.pc = "daily"
  /\ chk' = [chk EXCEPT !.pc = "get"]
  /\ currentDay' = Today
  /\ needsPriority' = IF currentDay # Today /\ GetTodayPriority = "" THEN TRUE ELSE needsPriority
  /\ UNCHANGED <<now, isRunning, timerStart, pendingBlock, timeBlocks, alarm, alarmQ,
                 badge, notification, alh, ub, en, startH, stopH, sched, popup>>
  /\ UNCHANGED run
  /\ op' = NoOp
  /\ UNCHANGED <<blockTags, dailyPriority, customLabels, form>>

\* checkTimerState after its storage.get
CheckTimerState ==
  /\ chk.pc = "get"
  /\ IF ~isRunning \/ pendingBlock # NoBlock \/ timerStart = 0
     THEN /\ chk' = IdleTask
          /\ UNCHANGED <<alarm, alarmQ>>
     ELSE IF Due(now - timerStart)
     THEN /\ chk' = [chk EXCEPT !.pc = "trigGet"]
          /\ UNCHANGED <<alarm, alarmQ>>
     ELSE /\ ScheduleNextInterrupt(RemainingTarget(timerStart))
          /\ chk' = IdleTask
  /\ UNCHANGED <<now, isRunning, timerStart, pendingBlock, timeBlocks,
                 badge, notification, alh, ub, en, startH, stopH, sched, popup>>
  /\ UNCHANGED run
  /\ op' = NoOp
  /\ UNCHANGED inputVars

\* triggerInterrupt, called by checkTimerState, after its storage.get
CheckTriggerGet ==
  /\ chk.pc = "trigGet"
  /\ chk' = [pc |-> "trigSet", blk |-> TriggerBlock]
  /\ UNCHANGED <<now, isRunning, timerStart, pendingBlock, timeBlocks, alarm, alarmQ,
                 badge, notification, alh, ub, en, startH, stopH, sched, popup>>
  /\ UNCHANGED run
  /\ op' = NoOp
  /\ UNCHANGED inputVars

\* triggerInterrupt, called by checkTimerState, after its storage.set
CheckTriggerSet ==
  /\ chk.pc = "trigSet"
  /\ TriggerStore(chk.blk)
  /\ chk' = IdleTask
  /\ UNCHANGED <<now, isRunning, timerStart, timeBlocks, alarm, alarmQ,
                 alh, ub, en, startH, stopH, sched, popup>>
  /\ UNCHANGED run
  /\ op' = NoOp
  /\ UNCHANGED inputVars

\* the alarms.clear callback of scheduleNextInterrupt: alarms.create
AlarmCreate ==
  /\ alarmQ # <<>>
  /\ alarm' = Head(alarmQ)
  /\ alarmQ' = Tail(alarmQ)
  /\ UNCHANGED <<now, isRunning, timerStart, pendingBlock, timeBlocks,
                 badge, notification, chk, alh, ub, en, startH, stopH, sched, popup>>
  /\ UNCHANGED <<run, op>>
  /\ UNCHANGED inputVars

\* updateBadge after its storage.get
UpdateBadge ==
  /\ ub = "get"
  /\ ub' = "idle"
  /\ badge' = IF pendingBlock # NoBlock THEN "!" ELSE ""
  /\ UNCHANGED <<now, isRunning, timerStart, pendingBlock, timeBlocks, alarm, alarmQ,
                 notification, chk, alh, en, startH, stopH, sched, popup>>
  /\ UNCHANGED run
  /\ op' = OpKeep("dismissed")
  /\ UNCHANGED inputVars

\* ensureNotificationExists after its storage.get
EnsureNotificationGet ==
  /\ en = "get"
  /\ en' = IF pendingBlock # NoBlock THEN "getAll" ELSE "idle"
  /\ UNCHANGED <<now, isRunning, timerStart, pendingBlock, timeBlocks, alarm, alarmQ,
                 badge, notification, chk, alh, ub, startH, stopH, sched, popup>>
  /\ UNCHANGED run
  /\ op' = OpKeep("dismissed")
  /\ UNCHANGED inputVars

EnsureNotificationGetAllNoCreate ==
  /\ en = "getAll"
  /\ en' = "idle"
  /\ UNCHANGED <<now, isRunning, timerStart, pendingBlock, timeBlocks, alarm, alarmQ,
                 badge, notification, chk, alh, ub, startH, stopH, sched, popup>>
  /\ UNCHANGED run
  /\ op' = OpKeep("dismissed")
  /\ UNCHANGED inputVars

\* ensureNotificationExists, the notifications.getAll callback
EnsureNotificationGetAll ==
  /\ en = "getAll"
  /\ en' = "idle"
  /\ notification' = TRUE
  /\ UNCHANGED <<now, isRunning, timerStart, pendingBlock, timeBlocks, alarm, alarmQ,
                 badge, chk, alh, ub, startH, stopH, sched, popup>>
  /\ UNCHANGED run
  /\ op' = OpKeep("dismissed")
  /\ UNCHANGED inputVars

----
\* chrome.alarms

\* the alarm is due and is delivered to the onAlarm listener
AlarmFire ==
  /\ alarm # 0 /\ now >= alarm
  /\ alh.pc = "idle"
  /\ Active < MaxActive
  /\ alarm' = 0
  /\ alh' = [pc |-> "trigGet", blk |-> NoBlock]
  /\ UNCHANGED <<now, isRunning, timerStart, pendingBlock, timeBlocks, alarmQ,
                 badge, notification, chk, ub, en, startH, stopH, sched, popup>>
  /\ run' = NoRun
  /\ op' = NoOp
  /\ UNCHANGED inputVars

\* triggerInterrupt, called by the onAlarm listener, after its storage.get
AlarmTriggerGet ==
  /\ alh.pc = "trigGet"
  /\ alh' = [pc |-> "trigSet", blk |-> TriggerBlock]
  /\ UNCHANGED <<now, isRunning, timerStart, pendingBlock, timeBlocks, alarm, alarmQ,
                 badge, notification, chk, ub, en, startH, stopH, sched, popup>>
  /\ run' = NoRun
  /\ op' = NoOp
  /\ UNCHANGED inputVars

AlarmTriggerSetRestarts ==
  /\ alh.pc = "trigSet"
  /\ TriggerStore(alh.blk)
  /\ alh' = IdleTask
  /\ timerStart' = now
  /\ UNCHANGED <<now, isRunning, timeBlocks, alarm, alarmQ,
                 chk, ub, en, startH, stopH, sched, popup>>
  /\ run' = NoRun
  /\ op' = NoOp
  /\ UNCHANGED inputVars

\* triggerInterrupt, called by the onAlarm listener, after its storage.set
AlarmTriggerSet ==
  /\ alh.pc = "trigSet"
  /\ TriggerStore(alh.blk)
  /\ alh' = IdleTask
  /\ UNCHANGED <<now, isRunning, timerStart, timeBlocks, alarm, alarmQ,
                 chk, ub, en, startH, stopH, sched, popup>>
  /\ run' = NoRun
  /\ op' = NoOp
  /\ UNCHANGED inputVars

----
\* Messages from the popup (chrome.runtime.onMessage)

\* startTimer, sent by the Start button, which the main menu shows when it saw
\* the timer stopped: Date.now() is read, storage.set is issued
StartTimerCall(p) ==
  /\ popup[p].screen = "menu" /\ ~popup[p].running
  /\ startH.pc = "idle"
  /\ Active < MaxActive
  /\ startH' = [pc |-> "set", now |-> now]
  /\ UNCHANGED <<now, isRunning, timerStart, pendingBlock, timeBlocks, alarm, alarmQ,
                 badge, notification, chk, alh, ub, en, stopH, sched, popup>>
  /\ run' = NoRun
  /\ op' = OpBegin("startTimer")
  /\ UNCHANGED inputVars

StartTimerSetRunningOnly ==
  /\ startH.pc = "set"
  /\ isRunning' = TRUE
  /\ startH' = [startH EXCEPT !.pc = "verify"]
  /\ UNCHANGED <<now, timerStart, pendingBlock, timeBlocks, alarm, alarmQ,
                 badge, notification, chk, alh, ub, en, stopH, sched, popup>>
  /\ run' = NoRun
  /\ op' = OpKeep("startTimer")
  /\ UNCHANGED inputVars

\* startTimer after storage.set({timerStart: now, isRunning: true})
StartTimerSet ==
  /\ startH.pc = "set"
  /\ timerStart' = startH.now
  /\ isRunning' = TRUE
  /\ startH' = [startH EXCEPT !.pc = "verify"]
  /\ UNCHANGED <<now, pendingBlock, timeBlocks, alarm, alarmQ,
                 badge, notification, chk, alh, ub, en, stopH, sched, popup>>
  /\ run' = NoRun
  /\ op' = OpKeep("startTimer")
  /\ UNCHANGED inputVars

StartTimerRespondOnly ==
  /\ startH.pc = "verify"
  /\ startH' = IdleMsg
  /\ UNCHANGED <<now, isRunning, timerStart, pendingBlock, timeBlocks, alarm, alarmQ,
                 badge, notification, chk, alh, ub, en, stopH, sched, popup>>
  /\ run' = NoRun
  /\ op' = OpResult("startTimer", "success")
  /\ UNCHANGED inputVars

\* startTimer after the verifying storage.get: scheduleNextInterrupt, sendResponse
StartTimerSchedule ==
  /\ startH.pc = "verify"
  /\ ScheduleNextInterrupt(startH.now + INTERRUPT_INTERVAL)
  /\ startH' = IdleMsg
  /\ UNCHANGED <<now, isRunning, timerStart, pendingBlock, timeBlocks,
                 badge, notification, chk, alh, ub, en, stopH, sched, popup>>
  /\ run' = NoRun
  /\ op' = OpResult("startTimer", "success")
  /\ UNCHANGED inputVars

StopTimerCallNoClear(p) ==
  /\ popup[p].screen = "menu" /\ popup[p].running
  /\ stopH.pc = "idle"
  /\ Active < MaxActive
  /\ stopH' = [stopH EXCEPT !.pc = "set"]
  /\ UNCHANGED <<now, isRunning, timerStart, pendingBlock, timeBlocks, alarm, alarmQ,
                 badge, notification, chk, alh, ub, en, startH, sched, popup>>
  /\ run' = NoRun
  /\ op' = OpBegin("stopTimer")
  /\ UNCHANGED inputVars

\* stopTimer, sent by the Stop button, which the main menu shows when it saw
\* the timer running: alarms.clear and storage.set are issued
StopTimerCall(p) ==
  /\ popup[p].screen = "menu" /\ popup[p].running
  /\ stopH.pc = "idle"
  /\ Active < MaxActive
  /\ alarm' = 0
  /\ stopH' = [stopH EXCEPT !.pc = "set"]
  /\ UNCHANGED <<now, isRunning, timerStart, pendingBlock, timeBlocks, alarmQ,
                 badge, notification, chk, alh, ub, en, startH, sched, popup>>
  /\ run' = NoRun
  /\ op' = OpBegin("stopTimer")
  /\ UNCHANGED inputVars

StopTimerSetDiscardPending ==
  /\ stopH.pc = "set"
  /\ isRunning' = FALSE
  /\ timerStart' = 0
  /\ pendingBlock' = NoBlock
  /\ stopH' = IdleMsg
  /\ UNCHANGED <<now, timeBlocks, alarm, alarmQ,
                 badge, notification, chk, alh, ub, en, startH, sched, popup>>
  /\ run' = NoRun
  /\ op' = OpResult("stopTimer", "success")
  /\ UNCHANGED inputVars

\* stopTimer after storage.set({isRunning: false, timerStart: null})
StopTimerSet ==
  /\ stopH.pc = "set"
  /\ isRunning' = FALSE
  /\ timerStart' = 0
  /\ stopH' = IdleMsg
  /\ UNCHANGED <<now, pendingBlock, timeBlocks, alarm, alarmQ,
                 badge, notification, chk, alh, ub, en, startH, sched, popup>>
  /\ run' = NoRun
  /\ op' = OpResult("stopTimer", "success")
  /\ UNCHANGED inputVars

\* startTimer when its storage.set rejects: catch, sendResponse({success: false})
StartTimerSetFails ==
  /\ startH.pc = "set"
  /\ startH' = IdleMsg
  /\ UNCHANGED <<now, isRunning, timerStart, pendingBlock, timeBlocks, alarm, alarmQ,
                 badge, notification, chk, alh, ub, en, stopH, sched, popup>>
  /\ run' = NoRun
  /\ op' = OpResult("startTimer", "failure")
  /\ UNCHANGED inputVars

\* stopTimer when its storage.set rejects: catch, sendResponse({success: false})
StopTimerSetFails ==
  /\ stopH.pc = "set"
  /\ stopH' = IdleMsg
  /\ UNCHANGED <<now, isRunning, timerStart, pendingBlock, timeBlocks, alarm, alarmQ,
                 badge, notification, chk, alh, ub, en, startH, sched, popup>>
  /\ run' = NoRun
  /\ op' = OpResult("stopTimer", "failure")
  /\ UNCHANGED inputVars

\* scheduleNextInterrupt message after its storage.get(['isRunning'])
ResumeGetWhateverIsRunning(p) ==
  /\ sched[p].pc = "get"
  /\ sched' = [sched EXCEPT ![p].pc = "set"]
  /\ UNCHANGED <<now, isRunning, timerStart, pendingBlock, timeBlocks, alarm, alarmQ,
                 badge, notification, chk, alh, ub, en, startH, stopH, popup>>
  /\ run' = NoRun
  /\ op' = OpKeep("label")
  /\ UNCHANGED inputVars

ResumeGet(p) ==
  /\ sched[p].pc = "get"
  /\ sched' = [sched EXCEPT ![p] = IF isRunning THEN [@ EXCEPT !.pc = "set"] ELSE IdleMsg]
  /\ UNCHANGED <<now, isRunning, timerStart, pendingBlock, timeBlocks, alarm, alarmQ,
                 badge, notification, chk, alh, ub, en, startH, stopH, popup>>
  /\ run' = NoRun
  /\ op' = IF isRunning THEN OpKeep("label") ELSE OpResult("label", "success")
  /\ UNCHANGED inputVars

ResumeSetKeepStart(p) ==
  /\ sched[p].pc = "set"
  /\ ScheduleNextInterrupt(sched[p].now + INTERRUPT_INTERVAL)
  /\ badge' = ""
  /\ sched' = [sched EXCEPT ![p] = IdleMsg]
  /\ UNCHANGED <<now, isRunning, timerStart, pendingBlock, timeBlocks,
                 notification, chk, alh, ub, en, startH, stopH, popup>>
  /\ run' = NoRun
  /\ op' = OpResult("label", "success")
  /\ UNCHANGED inputVars

\* scheduleNextInterrupt message after storage.set({timerStart: now})
ResumeSet(p) ==
  /\ sched[p].pc = "set"
  /\ timerStart' = sched[p].now
  /\ ScheduleNextInterrupt(sched[p].now + INTERRUPT_INTERVAL)
  /\ badge' = ""
  /\ sched' = [sched EXCEPT ![p] = IdleMsg]
  /\ UNCHANGED <<now, isRunning, pendingBlock, timeBlocks,
                 notification, chk, alh, ub, en, startH, stopH, popup>>
  /\ run' = NoRun
  /\ op' = OpResult("label", "success")
  /\ UNCHANGED inputVars

----
\* The popup

\* initializePopup after its storage.get: the popup's own pendingBlock variable,
\* the badge, the first screen with its input fields empty
PopupOpen(p) ==
  /\ popup[p].screen = "closed"
  /\ popup' = [popup EXCEPT ![p] =
       [screen |-> InitialScreen,
        pc |-> "idle", pendingBlock |-> pendingBlock, blocks |-> <<>>,
        running |-> IF InitialScreen = "menu" THEN isRunning ELSE FALSE]]
  /\ badge' = IF pendingBlock # NoBlock THEN "!" ELSE ""
  /\ form' = [form EXCEPT ![p] = EmptyForm]
  /\ UNCHANGED <<now, isRunning, timerStart, pendingBlock, timeBlocks, alarm, alarmQ,
                 notification, chk, alh, ub, en, startH, stopH, sched>>
  /\ run' = NoRun
  /\ op' = NoOp
  /\ UNCHANGED <<currentDay, blockTags, dailyPriority, needsPriority, customLabels>>

\* updateTimerUI of the main menu, after a response and every second: the
\* Start or the Stop button is shown
UpdateTimerUI(p) ==
  /\ popup[p].screen = "menu"
  /\ popup[p].running # isRunning
  /\ popup' = [popup EXCEPT ![p].running = isRunning]
  /\ UNCHANGED <<now, isRunning, timerStart, pendingBlock, timeBlocks, alarm, alarmQ,
                 badge, notification, chk, alh, ub, en, startH, stopH, sched>>
  /\ run' = NoRun
  /\ op' = NoOp
  /\ UNCHANGED inputVars

\* the popup is closed; a handler it was running ends there
PopupClose(p) ==
  /\ popup[p].screen # "closed"
  /\ popup' = [popup EXCEPT ![p] = ClosedPopup]
  /\ form' = [form EXCEPT ![p] = EmptyForm]
  /\ UNCHANGED <<now, isRunning, timerStart, pendingBlock, timeBlocks, alarm, alarmQ,
                 badge, notification, chk, alh, ub, en, startH, stopH, sched>>
  /\ run' = NoRun
  /\ op' = NoOp
  /\ UNCHANGED <<currentDay, blockTags, dailyPriority, needsPriority, customLabels>>

\* submitBtn.onclick with a label selected: getTodayPriority is awaited
SubmitClick(p) ==
  /\ popup[p].screen = "tagging"
  /\ popup[p].pc = "idle"
  /\ sched[p].pc = "idle"
  /\ Active < MaxActive
  /\ popup' = [popup EXCEPT ![p].pc = "priority"]
  /\ UNCHANGED <<now, isRunning, timerStart, pendingBlock, timeBlocks, alarm, alarmQ,
                 badge, notification, chk, alh, ub, en, startH, stopH, sched>>
  /\ run' = NoRun
  /\ op' = NoOp
  /\ UNCHANGED inputVars

\* the timeBlock is built from the popup's pendingBlock; saveTimeBlock awaits getTimeBlocks
SubmitBuild(p) ==
  /\ popup[p].pc = "priority"
  /\ popup' = [popup EXCEPT ![p].pc = "saveGet"]
  /\ form' = [form EXCEPT ![p].todayPriority = GetTodayPriority]
  /\ UNCHANGED <<now, isRunning, timerStart, pendingBlock, timeBlocks, alarm, alarmQ,
                 badge, notification, chk, alh, ub, en, startH, stopH, sched>>
  /\ run' = NoRun
  /\ op' = OpKeep("submitLabel")
  /\ UNCHANGED <<currentDay, blockTags, dailyPriority, needsPriority, customLabels>>

\* saveTimeBlock after getTimeBlocks: blocks.push(timeBlock), storage.set is issued
SaveTimeBlockGet(p) ==
  /\ popup[p].pc = "saveGet"
  /\ Len(timeBlocks) < MaxBlocks
  /\ popup' = [popup EXCEPT ![p].pc = "saveSet",
                            ![p].blocks = Append(timeBlocks,
                               Block(popup[p].pendingBlock.start, popup[p].pendingBlock.end))]
  /\ form' = [form EXCEPT ![p].tags =
                 Append(blockTags, Tag(form[p].selectedLabel, Trim(form[p].note).core,
                                       form[p].todayPriority))]
  /\ UNCHANGED <<now, isRunning, timerStart, pendingBlock, timeBlocks, alarm, alarmQ,
                 badge, notification, chk, alh, ub, en, startH, stopH, sched>>
  /\ run' = NoRun
  /\ op' = OpKeep("submitLabel")
  /\ UNCHANGED <<currentDay, blockTags, dailyPriority, needsPriority, customLabels>>

\* saveTimeBlock after storage.set({timeBlocks: blocks})
SaveTimeBlockSet(p) ==
  /\ popup[p].pc = "saveSet"
  /\ timeBlocks' = popup[p].blocks
  /\ blockTags' = form[p].tags
  /\ popup' = [popup EXCEPT ![p].pc = "clear", ![p].blocks = <<>>]
  /\ form' = [form EXCEPT ![p].tags = <<>>, ![p].todayPriority = ""]
  /\ UNCHANGED <<now, isRunning, timerStart, pendingBlock, alarm, alarmQ,
                 badge, notification, chk, alh, ub, en, startH, stopH, sched>>
  /\ run' = NoRun
  /\ op' = OpKeep("submitLabel")
  /\ UNCHANGED <<currentDay, dailyPriority, needsPriority, customLabels>>

\* after storage.set({pendingBlock: null}): badge and notification are cleared,
\* scheduleNextInterrupt is sent to the background, the main menu is shown
SubmitClear(p) ==
  /\ popup[p].pc = "clear"
  /\ pendingBlock' = NoBlock
  /\ badge' = ""
  /\ notification' = FALSE
  /\ sched' = [sched EXCEPT ![p] = [pc |-> "get", now |-> now]]
  /\ popup' = [popup EXCEPT ![p].pc = "idle", ![p].screen = "menu",
                            ![p].running = isRunning]
  /\ UNCHANGED <<now, isRunning, timerStart, timeBlocks, alarm, alarmQ,
                 chk, alh, ub, en, startH, stopH>>
  /\ run' = NoRun
  /\ op' = OpBegin("label")
  /\ UNCHANGED inputVars

----
\* The steps of a checkTimerState run and of the scheduling it asks for
CheckStep ==
  \/ CheckTimerState
  \/ CheckTriggerGet
  \/ CheckTriggerSet
  \/ AlarmCreate

RecoveryStep ==
  \/ InitializeDaily
  \/ CheckStep

\* The continuations of updateBadge and ensureNotificationExists; they read
\* pendingBlock and write only the badge and the notification
UiStep ==
  \/ UpdateBadge
  \/ EnsureNotificationGet
  \/ EnsureNotificationGetAll

AlarmStep ==
  \/ AlarmFire
  \/ AlarmTriggerGet
  \/ AlarmTriggerSet

MessageStep ==
  \/ \E p \in Popups : StartTimerCall(p)
  \/ StartTimerSet
  \/ StartTimerSchedule
  \/ \E p \in Popups : StopTimerCall(p)
  \/ StopTimerSet
  \/ StartTimerSetFails
  \/ StopTimerSetFails
  \/ \E p \in Popups : ResumeGet(p)
  \/ \E p \in Popups : ResumeSet(p)

PopupStep(p) ==
  \/ PopupOpen(p)
  \/ PopupClose(p)
  \/ UpdateTimerUI(p)
  \/ SubmitClick(p)
  \/ SubmitBuild(p)
  \/ SaveTimeBlockGet(p)
  \/ SaveTimeBlockSet(p)
  \/ SubmitClear(p)

\* The engine with one popup surface
Next ==
  \/ Restart
  \/ PeriodicCheck
  \/ RecoveryStep
  \/ Tick
  \/ AlarmStep
  \/ MessageStep
  \/ PopupStep("p1")

Spec == Init /\ [][Next]_vars

\* The engine with two popup surfaces open on the same storage
NextTwo ==
  \/ Restart
  \/ PeriodicCheck
  \/ RecoveryStep
  \/ Tick
  \/ AlarmStep
  \/ MessageStep
  \/ \E p \in Popups : PopupStep(p)

SpecTwo == Init /\ [][NextTwo]_vars

\* The engine on a host that drops the alarm instead of delivering it, with a
\* service worker that stays alive: setInterval keeps firing whatever the other
\* handlers do, and the awaited chrome.* calls of the background handlers
\* always complete
AlarmDrop ==
  /\ alarm # 0 /\ now >= alarm
  /\ alarm' = 0
  /\ UNCHANGED <<now, isRunning, timerStart, pendingBlock, timeBlocks, alarmQ,
                 badge, notification, chk, alh, ub, en, startH, stopH, sched, popup>>
  /\ run' = NoRun
  /\ op' = NoOp
  /\ UNCHANGED inputVars

NextDropped ==
  \/ PeriodicCheck
  \/ CheckStep
  \/ Tick
  \/ AlarmDrop
  \/ MessageStep
  \/ PopupStep("p1")

SpecDropped ==
  /\ Init
  /\ [][NextDropped]_vars
  /\ SF_vars(PeriodicCheck)
  /\ WF_vars(CheckTimerState)
  /\ WF_vars(CheckTriggerGet)
  /\ WF_vars(CheckTriggerSet)
  /\ WF_vars(AlarmCreate)
  /\ WF_vars(StartTimerSet)
  /\ WF_vars(StartTimerSchedule)
  /\ WF_vars(StopTimerSet)
  /\ WF_vars(\E p \in Popups : ResumeGet(p))
  /\ WF_vars(\E p \in Popups : ResumeSet(p))

\* The input screens of the popup: the priority prompt, the tagging screen's
\* fields, the label settings.  timerVars is what their handlers never touch.

timerVars ==
  <<now, isRunning, timerStart, pendingBlock, timeBlocks, blockTags, alarm, alarmQ,
    badge, notification, chk, alh, ub, en, startH, stopH, sched>>

\* the user types t into the priority field
TypePriority(p, t) ==
  /\ popup[p].screen = "priorityPrompt" /\ popup[p].pc = "idle"
  /\ form' = [form EXCEPT ![p].priority = t, ![p].alert = ""]
  /\ UNCHANGED <<timerVars, popup, currentDay, dailyPriority, needsPriority, customLabels>>
  /\ run' = NoRun
  /\ op' = NoOp

\* prioritySubmit.onclick: trim, reject the empty text, else setTodayPriority
PrioritySubmitClick(p) ==
  /\ popup[p].screen = "priorityPrompt" /\ popup[p].pc = "idle"
  /\ IF Length(Trim(form[p].priority)) = 0
     THEN /\ form' = [form EXCEPT ![p].alert = "Please enter your priority for today."]
          /\ UNCHANGED popup
     ELSE /\ popup' = [popup EXCEPT ![p].pc = "prioGet"]
          /\ UNCHANGED form
  /\ UNCHANGED <<timerVars, currentDay, dailyPriority, needsPriority, customLabels>>
  /\ run' = NoRun
  /\ op' = OpInput("submitPriority", p)

SetTodayPriorityGetFresh(p) ==
  /\ popup[p].pc = "prioGet"
  /\ popup' = [popup EXCEPT ![p].pc = "prioSet"]
  /\ form' = [form EXCEPT ![p].priorities = Priorities(Trim(form[p].priority).core, "")]
  /\ UNCHANGED <<timerVars, currentDay, dailyPriority, needsPriority, customLabels>>
  /\ run' = NoRun
  /\ op' = OpKeep("submitPriority")

\* setTodayPriority after its storage.get: priorities[today] = priority, storage.set issued
SetTodayPriorityGet(p) ==
  /\ popup[p].pc = "prioGet"
  /\ popup' = [popup EXCEPT ![p].pc = "prioSet"]
  /\ form' = [form EXCEPT ![p].priorities =
                 [dailyPriority EXCEPT ![Today] = Trim(form[p].priority).core]]
  /\ UNCHANGED <<timerVars, currentDay, dailyPriority, needsPriority, customLabels>>
  /\ run' = NoRun
  /\ op' = OpKeep("submitPriority")

\* setTodayPriority after its storage.set; storage.set({needsPriority: false}) issued
SetTodayPrioritySet(p) ==
  /\ popup[p].pc = "prioSet"
  /\ dailyPriority' = form[p].priorities
  /\ popup' = [popup EXCEPT ![p].pc = "needsSet"]
  /\ UNCHANGED <<timerVars, currentDay, needsPriority, customLabels, form>>
  /\ run' = NoRun
  /\ op' = OpKeep("submitPriority")

\* after storage.set({needsPriority: false}): the tagging screen or the main menu
PriorityDone(p) ==
  /\ popup[p].pc = "needsSet"
  /\ needsPriority' = FALSE
  /\ popup' = [popup EXCEPT ![p].pc = "idle",
                            ![p].screen = IF popup[p].pendingBlock # NoBlock
                                          THEN "tagging" ELSE "menu",
                            ![p].running = IF popup[p].pendingBlock # NoBlock
                                           THEN FALSE ELSE isRunning]
  /\ form' = [form EXCEPT ![p] = [EmptyForm EXCEPT !.defaults = form[p].defaults]]
  /\ UNCHANGED <<timerVars, currentDay, dailyPriority, customLabels>>
  /\ run' = NoRun
  /\ op' = OpKeep("submitPriority")

\* a label button of the tagging screen: selectedLabel, the submit button is enabled
SelectLabel(p, l) ==
  /\ popup[p].screen = "tagging" /\ popup[p].pc = "idle"
  /\ form' = [form EXCEPT ![p].selectedLabel = l, ![p].alert = ""]
  /\ UNCHANGED <<timerVars, popup, currentDay, dailyPriority, needsPriority, customLabels>>
  /\ run' = NoRun
  /\ op' = NoOp

\* the user types t into the note field
TypeNote(p, t) ==
  /\ popup[p].screen = "tagging" /\ popup[p].pc = "idle"
  /\ form' = [form EXCEPT ![p].note = t, ![p].alert = ""]
  /\ UNCHANGED <<timerVars, popup, currentDay, dailyPriority, needsPriority, customLabels>>
  /\ run' = NoRun
  /\ op' = NoOp

\* submitButton.onclick (the button is disabled until a label is selected):
\* reject no label and a note over the limit, else getTodayPriority is awaited
TaggingSubmit(p) ==
  /\ popup[p].screen = "tagging" /\ popup[p].pc = "idle"
  /\ form[p].selectedLabel # ""
  /\ sched[p].pc = "idle"
  /\ Active < MaxActive
  /\ IF form[p].selectedLabel = ""
     THEN /\ form' = [form EXCEPT ![p].alert = "Please select a label."]
          /\ UNCHANGED popup
     ELSE IF Length(form[p].note) > NOTE_CHAR_LIMIT
     THEN /\ form' = [form EXCEPT ![p].alert = "Note must be 100 characters or less."]
          /\ UNCHANGED popup
     ELSE /\ popup' = [popup EXCEPT ![p].pc = "priority"]
          /\ UNCHANGED form
  /\ UNCHANGED <<timerVars, currentDay, dailyPriority, needsPriority, customLabels>>
  /\ run' = NoRun
  /\ op' = OpInput("submitLabel", p)

\* viewSettings.onclick: showSettingsScreen, renderLabelsList is awaited
OpenSettings(p) ==
  /\ popup[p].screen = "menu" /\ popup[p].pc = "idle"
  /\ popup' = [popup EXCEPT ![p].screen = "settings", ![p].pc = "render"]
  /\ UNCHANGED <<timerVars, inputVars>>
  /\ run' = NoRun
  /\ op' = NoOp

\* renderLabelsList after getLabels: the list shows the stored labels, each
\* with its Edit and Delete button; a label being edited is shown plain again
RenderLabels(p) ==
  /\ popup[p].pc = "render"
  /\ popup' = [popup EXCEPT ![p].pc = "idle"]
  /\ form' = [form EXCEPT ![p].rendered = LabelsOf(p),
                          ![p].editIndex = 0, ![p].editName = "", ![p].editText = EmptyText]
  /\ UNCHANGED <<timerVars, currentDay, dailyPriority, needsPriority, customLabels>>
  /\ run' = NoRun
  /\ op' = NoOp

\* closeSettings.onclick: showMainMenu
CloseSettings(p) ==
  /\ popup[p].screen = "settings" /\ popup[p].pc = "idle"
  /\ popup' = [popup EXCEPT ![p].screen = "menu", ![p].running = isRunning]
  /\ form' = [form EXCEPT ![p].editIndex = 0, ![p].editName = "", ![p].editText = EmptyText,
                          ![p].rendered = <<>>]
  /\ UNCHANGED <<timerVars, currentDay, dailyPriority, needsPriority, customLabels>>
  /\ run' = NoRun
  /\ op' = NoOp

\* the user types t into the new-label field (no label is being edited)
TypeNewLabel(p, t) ==
  /\ popup[p].screen = "settings" /\ popup[p].pc = "idle"
  /\ form[p].editIndex = 0
  /\ form' = [form EXCEPT ![p].newLabel = t, ![p].alert = ""]
  /\ UNCHANGED <<timerVars, popup, currentDay, dailyPriority, needsPriority, customLabels>>
  /\ run' = NoRun
  /\ op' = NoOp

\* addLabelButton.onclick: trim, reject the empty and the over-long name, else
\* getLabels is awaited
AddLabelClick(p) ==
  /\ popup[p].screen = "settings" /\ popup[p].pc = "idle"
  /\ IF Length(Trim(form[p].newLabel)) = 0
     THEN /\ form' = [form EXCEPT ![p].alert = "Please enter a label name."]
          /\ UNCHANGED popup
     ELSE IF Length(Trim(form[p].newLabel)) > LabelNameLimit
     THEN /\ form' = [form EXCEPT ![p].alert = "Label name must be 50 characters or less."]
          /\ UNCHANGED popup
     ELSE /\ popup' = [popup EXCEPT ![p].pc = "addGet"]
          /\ UNCHANGED form
  /\ UNCHANGED <<timerVars, currentDay, dailyPriority, needsPriority, customLabels>>
  /\ run' = NoRun
  /\ op' = OpInput("addLabel", p)

\* addLabelButton.onclick after getLabels: reject a name the set has, else
\* labels.push(labelName), saveLabels is awaited
AddLabelGet(p) ==
  /\ popup[p].pc = "addGet"
  /\ IF NameTaken(LabelsOf(p), Trim(form[p].newLabel).core)
     THEN /\ form' = [form EXCEPT ![p].alert = "This label already exists."]
          /\ popup' = [popup EXCEPT ![p].pc = "idle"]
     ELSE /\ form' = [form EXCEPT
               ![p].labels = Append(LabelsOf(p), Trim(form[p].newLabel).core),
               ![p].defaults =
                  DefaultsAfter(p, Append(LabelsOf(p), Trim(form[p].newLabel).core))]
          /\ popup' = [popup EXCEPT ![p].pc = "addSet"]
  /\ UNCHANGED <<timerVars, currentDay, dailyPriority, needsPriority, customLabels>>
  /\ run' = NoRun
  /\ op' = OpKeep("addLabel")

\* addLabelButton.onclick after saveLabels: the field is emptied, the list rendered
AddLabelSet(p) ==
  /\ popup[p].pc = "addSet"
  /\ customLabels' = [stored |-> TRUE, list |-> form[p].labels]
  /\ form' = [form EXCEPT ![p].newLabel = EmptyText, ![p].labels = <<>>]
  /\ popup' = [popup EXCEPT ![p].pc = "render"]
  /\ UNCHANGED <<timerVars, currentDay, dailyPriority, needsPriority>>
  /\ run' = NoRun
  /\ op' = OpKeep("addLabel")

\* editBtn.onclick of the label at index i: editLabel, the input holds currentName
EditLabel(p, i) ==
  /\ popup[p].screen = "settings" /\ popup[p].pc = "idle"
  /\ i \in 1..Len(form[p].rendered)
  /\ form[p].newLabel = EmptyText
  /\ form' = [form EXCEPT ![p].editIndex = i, ![p].editName = form[p].rendered[i],
                          ![p].editText = Text(form[p].rendered[i], 0), ![p].alert = ""]
  /\ UNCHANGED <<timerVars, popup, currentDay, dailyPriority, needsPriority, customLabels>>
  /\ run' = NoRun
  /\ op' = NoOp

\* the user types t into the field of the label being edited (input.maxLength = 50)
TypeEdit(p, t) ==
  /\ popup[p].screen = "settings" /\ popup[p].pc = "idle"
  /\ form[p].editIndex # 0
  /\ Length(t) <= LabelNameLimit
  /\ form' = [form EXCEPT ![p].editText = t, ![p].alert = ""]
  /\ UNCHANGED <<timerVars, popup, currentDay, dailyPriority, needsPriority, customLabels>>
  /\ run' = NoRun
  /\ op' = NoOp

\* saveHandler of editLabel: trim, reject the empty and the over-long name,
\* else getLabels is awaited
RenameSaveClick(p) ==
  /\ popup[p].screen = "settings" /\ popup[p].pc = "idle"
  /\ form[p].editIndex # 0
  /\ IF Length(Trim(form[p].editText)) = 0
     THEN /\ form' = [form EXCEPT ![p].alert = "Label name cannot be empty."]
          /\ UNCHANGED popup
     ELSE IF Length(Trim(form[p].editText)) > LabelNameLimit
     THEN /\ form' = [form EXCEPT ![p].alert = "Label name must be 50 characters or less."]
          /\ UNCHANGED popup
     ELSE /\ popup' = [popup EXCEPT ![p].pc = "renGet"]
          /\ UNCHANGED form
  /\ UNCHANGED <<timerVars, currentDay, dailyPriority, needsPriority, customLabels>>
  /\ run' = NoRun
  /\ op' = OpInput("renameLabel", p)

\* saveHandler after getLabels: reject the name of another label, else
\* labels[index] = newName, saveLabels is awaited
RenameGet(p) ==
  /\ popup[p].pc = "renGet"
  /\ IF /\ NameTaken(LabelsOf(p), Trim(form[p].editText).core)
        /\ Trim(form[p].editText).core # form[p].editName
     THEN /\ form' = [form EXCEPT ![p].alert = "This label already exists."]
          /\ popup' = [popup EXCEPT ![p].pc = "idle"]
     ELSE /\ form' = [form EXCEPT
               ![p].labels =
                  SetAt(LabelsOf(p), form[p].editIndex, Trim(form[p].editText).core),
               ![p].defaults =
                  DefaultsAfter(p, SetAt(LabelsOf(p), form[p].editIndex,
                                         Trim(form[p].editText).core))]
          /\ popup' = [popup EXCEPT ![p].pc = "renSet"]
  /\ UNCHANGED <<timerVars, currentDay, dailyPriority, needsPriority, customLabels>>
  /\ run' = NoRun
  /\ op' = OpKeep("renameLabel")

RenameSetRetags(p) ==
  /\ popup[p].pc = "renSet"
  /\ customLabels' = [stored |-> TRUE, list |-> form[p].labels]
  /\ blockTags' = [k \in 1..Len(blockTags) |->
                     IF blockTags[k].label = form[p].editName
                     THEN [blockTags[k] EXCEPT !.label = Trim(form[p].editText).core]
                     ELSE blockTags[k]]
  /\ form' = [form EXCEPT ![p].labels = <<>>]
  /\ popup' = [popup EXCEPT ![p].pc = "render"]
  /\ UNCHANGED <<now, isRunning, timerStart, pendingBlock, timeBlocks, alarm, alarmQ,
                 badge, notification, chk, alh, ub, en, startH, stopH, sched>>
  /\ UNCHANGED <<currentDay, dailyPriority, needsPriority>>
  /\ run' = NoRun
  /\ op' = OpKeep("renameLabel")

\* saveHandler after saveLabels: the list is rendered
RenameSet(p) ==
  /\ popup[p].pc = "renSet"
  /\ customLabels' = [stored |-> TRUE, list |-> form[p].labels]
  /\ form' = [form EXCEPT ![p].labels = <<>>]
  /\ popup' = [popup EXCEPT ![p].pc = "render"]
  /\ UNCHANGED <<timerVars, currentDay, dailyPriority, needsPriority>>
  /\ run' = NoRun
  /\ op' = OpKeep("renameLabel")

\* cancelHandler of editLabel: renderLabelsList is awaited
CancelEdit(p) ==
  /\ popup[p].screen = "settings" /\ popup[p].pc = "idle"
  /\ form[p].editIndex # 0
  /\ popup' = [popup EXCEPT ![p].pc = "render"]
  /\ UNCHANGED <<timerVars, inputVars>>
  /\ run' = NoRun
  /\ op' = NoOp

\* deleteBtn.onclick of the label shown at index i, confirm() accepted:
\* deleteLabel awaits getLabels
DeleteClick(p, i) ==
  /\ popup[p].screen = "settings" /\ popup[p].pc = "idle"
  /\ i \in 1..Len(form[p].rendered)
  /\ i # form[p].editIndex
  /\ form' = [form EXCEPT ![p].delIndex = i, ![p].alert = ""]
  /\ popup' = [popup EXCEPT ![p].pc = "delGet"]
  /\ UNCHANGED <<timerVars, currentDay, dailyPriority, needsPriority, customLabels>>
  /\ run' = NoRun
  /\ op' = OpInput("deleteLabel", p)

\* deleteLabel after getLabels: labels.splice(index, 1), in place; an empty
\* result is replaced by a copy of the document's DEFAULT_LABELS array;
\* saveLabels is awaited
DeleteGet(p) ==
  /\ popup[p].pc = "delGet"
  /\ LET spliced == Splice(LabelsOf(p), form[p].delIndex)
         defaults == DefaultsAfter(p, spliced)
     IN IF spliced = <<>>
        THEN form' = [form EXCEPT ![p].labels = defaults,
                                  ![p].defaults = defaults,
                                  ![p].alert = "You must have at least one label."]
        ELSE form' = [form EXCEPT ![p].labels = spliced, ![p].defaults = defaults]
  /\ popup' = [popup EXCEPT ![p].pc = "delSet"]
  /\ UNCHANGED <<timerVars, currentDay, dailyPriority, needsPriority, customLabels>>
  /\ run' = NoRun
  /\ op' = OpKeep("deleteLabel")

\* deleteLabel after saveLabels: renderLabelsList is awaited
DeleteSet(p) ==
  /\ popup[p].pc = "delSet"
  /\ customLabels' = [stored |-> TRUE, list |-> form[p].labels]
  /\ form' = [form EXCEPT ![p].labels = <<>>, ![p].delIndex = 0]
  /\ popup' = [popup EXCEPT ![p].pc = "render"]
  /\ UNCHANGED <<timerVars, currentDay, dailyPriority, needsPriority>>
  /\ run' = NoRun
  /\ op' = OpKeep("deleteLabel")

\* The popup's input handlers.  The start is either a fresh installation whose
\* service worker is running initialize(), or a timer interrupted after 15
\* minutes with today's priority declared.
InitInput ==
  /\ alarm = 0
  /\ alarmQ = <<>>
  /\ timeBlocks = <<>>
  /\ alh = IdleTask
  /\ ub = "idle"
  /\ en = "idle"
  /\ startH = IdleMsg
  /\ stopH = IdleMsg
  /\ sched = [p \in Popups |-> IdleMsg]
  /\ popup = [p \in Popups |-> ClosedPopup]
  /\ run = NoRun
  /\ op = NoOp
  /\ needsPriority = FALSE
  /\ customLabels = NoLabels
  /\ blockTags = <<>>
  /\ form = [p \in Popups |-> EmptyForm]
  /\ \/ /\ now = TickMs
        /\ isRunning = FALSE
        /\ timerStart = 0
        /\ pendingBlock = NoBlock
        /\ badge = ""
        /\ notification = FALSE
        /\ chk = [pc |-> "daily", blk |-> NoBlock]
        /\ currentDay = 0
        /\ dailyPriority = Priorities("", "")
     \/ /\ now = TickMs + INTERRUPT_INTERVAL
        /\ isRunning = TRUE
        /\ timerStart = TickMs
        /\ pendingBlock = Block(TickMs, TickMs + INTERRUPT_INTERVAL)
        /\ badge = "!"
        /\ notification = TRUE
        /\ chk = IdleTask
        /\ currentDay = Today
        /\ dailyPriority = Priorities("Deep", "")

NextInput ==
  \/ InitializeDaily
  \/ CheckTimerState
  \/ PopupOpen("p1")
  \/ PopupClose("p1")
  \/ \E t \in PriorityTexts : TypePriority("p1", t)
  \/ PrioritySubmitClick("p1")
  \/ SetTodayPriorityGet("p1")
  \/ SetTodayPrioritySet("p1")
  \/ PriorityDone("p1")
  \/ \E i \in 1..MaxEditIndex : SelectLabel("p1", GetLabels[i])
  \/ \E t \in NoteTexts : TypeNote("p1", t)
  \/ TaggingSubmit("p1")
  \/ SubmitBuild("p1")
  \/ SaveTimeBlockGet("p1")
  \/ SaveTimeBlockSet("p1")
  \/ SubmitClear("p1")
  \/ ResumeGet("p1")
  \/ ResumeSet("p1")
  \/ OpenSettings("p1")
  \/ CloseSettings("p1")
  \/ RenderLabels("p1")
  \/ \E t \in NameTexts : TypeNewLabel("p1", t)
  \/ AddLabelClick("p1")
  \/ AddLabelGet("p1")
  \/ AddLabelSet("p1")
  \/ \E i \in 1..MaxEditIndex : EditLabel("p1", i)
  \/ \E t \in NameTexts : TypeEdit("p1", t)
  \/ RenameSaveClick("p1")
  \/ RenameGet("p1")
  \/ RenameSet("p1")

SpecInput == InitInput /\ [][NextInput]_vars

\* The label settings on two popup surfaces: p1 adds, renames and deletes
\* labels, p2 deletes labels.  The start is a timer that has not been started,
\* with one TimeBlock labelled Work in the log.
LabelTexts == {Text("Deep", 0)}

InitLabels ==
  /\ now = TickMs + INTERRUPT_INTERVAL
  /\ isRunning = FALSE
  /\ timerStart = 0
  /\ pendingBlock = NoBlock
  /\ timeBlocks = <<Block(TickMs, TickMs + INTERRUPT_INTERVAL)>>
  /\ blockTags = <<Tag("Work", "", "Deep")>>
  /\ alarm = 0
  /\ alarmQ = <<>>
  /\ badge = ""
  /\ notification = FALSE
  /\ chk = IdleTask
  /\ alh = IdleTask
  /\ ub = "idle"
  /\ en = "idle"
  /\ startH = IdleMsg
  /\ stopH = IdleMsg
  /\ sched = [p \in Popups |-> IdleMsg]
  /\ popup = [p \in Popups |-> ClosedPopup]
  /\ run = NoRun
  /\ op = NoOp
  /\ currentDay = Today
  /\ dailyPriority = Priorities("Deep", "")
  /\ needsPriority = FALSE
  /\ customLabels = NoLabels
  /\ form = [p \in Popups |-> EmptyForm]

NextLabels ==
  \/ \E p \in Popups :
       \/ PopupOpen(p)
       \/ OpenSettings(p)
       \/ RenderLabels(p)
       \/ \E i \in 1..MaxEditIndex :
            Len(GetLabels) > Len(DEFAULT_LABELS) - MaxLabelDrift /\ DeleteClick(p, i)
       \/ DeleteGet(p)
       \/ DeleteSet(p)
  \/ \E t \in LabelTexts : TypeNewLabel("p1", t)
  \/ Len(GetLabels) < Len(DEFAULT_LABELS) + MaxLabelDrift /\ AddLabelClick("p1")
  \/ AddLabelGet("p1")
  \/ AddLabelSet("p1")
  \/ \E i \in 1..MaxEditIndex : EditLabel("p1", i)
  \/ \E t \in LabelTexts : TypeEdit("p1", t)
  \/ RenameSaveClick("p1")
  \/ RenameGet("p1")
  \/ RenameSet("p1")
  \/ CancelEdit("p1")

SpecLabels == InitLabels /\ [][NextLabels]_vars

\* The label settings on one surface, where labels are deleted down to the
\* last one, in one popup document or across several
NextDelete ==
  \/ PopupOpen("p1")
  \/ PopupClose("p1")
  \/ OpenSettings("p1")
  \/ RenderLabels("p1")
  \/ CloseSettings("p1")
  \/ \E i \in 1..MaxEditIndex : DeleteClick("p1", i)
  \/ DeleteGet("p1")
  \/ DeleteSet("p1")
  \/ \E t \in LabelTexts : TypeNewLabel("p1", t)
  \/ Len(GetLabels) < Len(DEFAULT_LABELS) + MaxLabelDrift /\ AddLabelClick("p1")
  \/ AddLabelGet("p1")
  \/ AddLabelSet("p1")

SpecDelete == InitLabels /\ [][NextDelete]_vars

\* The priority prompt on two popup surfaces.  The start is a new day on which
\* checkDailyPriority has asked for the priority; yesterday's is stored.
PromptTexts == {Text("", 1), Text("Deep", 1), Text("Ship", 0)}

InitPriority ==
  /\ now = TickMs
  /\ isRunning = FALSE
  /\ timerStart = 0
  /\ pendingBlock = NoBlock
  /\ timeBlocks = <<>>
  /\ blockTags = <<>>
  /\ alarm = 0
  /\ alarmQ = <<>>
  /\ badge = ""
  /\ notification = FALSE
  /\ chk = IdleTask
  /\ alh = IdleTask
  /\ ub = "idle"
  /\ en = "idle"
  /\ startH = IdleMsg
  /\ stopH = IdleMsg
  /\ sched = [p \in Popups |-> IdleMsg]
  /\ popup = [p \in Popups |-> ClosedPopup]
  /\ run = NoRun
  /\ op = NoOp
  /\ currentDay = Today
  /\ dailyPriority = Priorities("", "Plan")
  /\ needsPriority = TRUE
  /\ customLabels = NoLabels
  /\ form = [p \in Popups |-> EmptyForm]

NextPriority ==
  \E p \in Popups :
    \/ PopupOpen(p)
    \/ PopupClose(p)
    \/ \E t \in PromptTexts : TypePriority(p, t)
    \/ PrioritySubmitClick(p)
    \/ SetTodayPriorityGet(p)
    \/ SetTodayPrioritySet(p)
    \/ PriorityDone(p)

SpecPriority == InitPriority /\ [][NextPriority]_vars

\* The review screens.  The start is any log of up to MaxInsightBlocks blocks
\* of one day, today or yesterday, with one of three label sets and today's
\* priority declared or not.  The log is in the order of the submissions: its
\* starts ascend, descend, or interleave (the odd positions hold the earlier
\* blocks, as when a second surface submits its blocks late).
LogOrders == {"ascending", "descending", "interleaved"}

\* the quarter hour of the day in which the block at position i of n starts
Slot(order, n, i) ==
  CASE order = "ascending" -> i
    [] order = "descending" -> n + 1 - i
    [] order = "interleaved" ->
         IF i % 2 = 1 THEN (i + 1) \div 2 ELSE (n + 1) \div 2 + i \div 2

InsightLabels == {"Work", "Meetings", "Break"}

InsightLabelSets ==
  {NoLabels,
   [stored |-> TRUE, list |-> <<"Meetings", "Work">>],
   [stored |-> TRUE, list |-> <<"Other", "Work">>]}

InsightPriorities == {"", "Deep", "Finish the client report"}

\* viewDaily.onclick: showDailyReview shows generateDailyInsight()
ShowDailyReview(p) ==
  /\ popup[p].screen = "menu" /\ popup[p].pc = "idle"
  /\ popup' = [popup EXCEPT ![p].screen = "dailyReview"]
  /\ form' = [form EXCEPT ![p].insight = GenerateDailyInsight]
  /\ UNCHANGED <<timerVars, currentDay, dailyPriority, needsPriority, customLabels>>
  /\ run' = NoRun
  /\ op' = NoOp

\* viewWeekly.onclick: showWeeklyReview shows generateWeeklyInsights()
ShowWeeklyReview(p) ==
  /\ popup[p].screen = "menu" /\ popup[p].pc = "idle"
  /\ popup' = [popup EXCEPT ![p].screen = "weeklyReview"]
  /\ form' = [form EXCEPT ![p].weekly = GenerateWeeklyInsights]
  /\ UNCHANGED <<timerVars, currentDay, dailyPriority, needsPriority, customLabels>>
  /\ run' = NoRun
  /\ op' = NoOp

\* closeDailyReview.onclick, closeWeeklyReview.onclick: showMainMenu.  The
\* handler is assigned at the end of showDailyReview and showWeeklyReview, which
\* a TypeError of the insight does not reach.
CloseReview(p) ==
  /\ popup[p].screen \in {"dailyReview", "weeklyReview"}
  /\ form[p].insight # TypeErrorInsight /\ form[p].weekly # TypeErrorInsight
  /\ popup' = [popup EXCEPT ![p].screen = "menu", ![p].running = isRunning]
  /\ form' = [form EXCEPT ![p] = [EmptyForm EXCEPT !.defaults = form[p].defaults]]
  /\ UNCHANGED <<timerVars, currentDay, dailyPriority, needsPriority, customLabels>>
  /\ run' = NoRun
  /\ op' = NoOp

InitInsight ==
  /\ now = DayMs + (MaxInsightBlocks + 1) * INTERRUPT_INTERVAL
  /\ isRunning = FALSE
  /\ timerStart = 0
  /\ pendingBlock = NoBlock
  /\ alarm = 0
  /\ alarmQ = <<>>
  /\ badge = ""
  /\ notification = FALSE
  /\ chk = IdleTask
  /\ alh = IdleTask
  /\ ub = "idle"
  /\ en = "idle"
  /\ startH = IdleMsg
  /\ stopH = IdleMsg
  /\ sched = [p \in Popups |-> IdleMsg]
  /\ popup = [p \in Popups |-> ClosedPopup]
  /\ run = NoRun
  /\ op = NoOp
  /\ needsPriority = FALSE
  /\ form = [p \in Popups |-> EmptyForm]
  /\ customLabels \in InsightLabelSets
  /\ \E t \in InsightPriorities :
       /\ dailyPriority = Priorities(t, "Plan")
       /\ currentDay = IF t = "" THEN Yesterday ELSE Today
       /\ \E n \in 0..MaxInsightBlocks, day \in Days, order \in LogOrders :
            \E ls \in [1..n -> InsightLabels] :
              /\ order = "descending" => n >= 2
              /\ order = "interleaved" => n >= 3
              /\ timeBlocks =
                   [i \in 1..n |->
                      Block((day - 1) * DayMs + Slot(order, n, i) * INTERRUPT_INTERVAL,
                            (day - 1) * DayMs + (Slot(order, n, i) + 1) * INTERRUPT_INTERVAL)]
              /\ blockTags = [i \in 1..n |-> Tag(ls[i], "", dailyPriority[day])]

NextInsight ==
  \/ PopupOpen("p1")
  \/ PopupClose("p1")
  \/ ShowDailyReview("p1")
  \/ ShowWeeklyReview("p1")
  \/ CloseReview("p1")

SpecInsight == InitInsight /\ [][NextInsight]_vars

\* The daily review over longer logs of today.  The log is up to three runs
\* of equal labels, MaxDailyBlocks blocks in all; a label set may hold a label
\* the user has named "Constructor".
DailyLabels == {"Work", "Meetings", "Deep", "Constructor"}

DailyLabelSets ==
  {NoLabels,
   [stored |-> TRUE, list |-> <<"Deep", "Work", "Meetings">>],
   [stored |-> TRUE, list |-> <<"Constructor", "Work">>]}

DailyPriorities == {"Deep", "Finish the client report", "Team sync"}

\* i blocks labelled a, then j labelled b, then k labelled c
Runs(a, i, b, j, c, k) ==
  [n \in 1..(i + j + k) |-> IF n <= i THEN a ELSE IF n <= i + j THEN b ELSE c]

InitDaily ==
  /\ now = DayMs + (MaxDailyBlocks + 1) * INTERRUPT_INTERVAL
  /\ isRunning = FALSE
  /\ timerStart = 0
  /\ pendingBlock = NoBlock
  /\ alarm = 0
  /\ alarmQ = <<>>
  /\ badge = ""
  /\ notification = FALSE
  /\ chk = IdleTask
  /\ alh = IdleTask
  /\ ub = "idle"
  /\ en = "idle"
  /\ startH = IdleMsg
  /\ stopH = IdleMsg
  /\ sched = [p \in Popups |-> IdleMsg]
  /\ popup = [p \in Popups |-> ClosedPopup]
  /\ run = NoRun
  /\ op = NoOp
  /\ needsPriority = FALSE
  /\ form = [p \in Popups |-> EmptyForm]
  /\ currentDay = Today
  /\ customLabels \in DailyLabelSets
  /\ \E t \in DailyPriorities : dailyPriority = Priorities(t, "Plan")
  /\ \E i \in 1..MaxDailyBlocks, j \in 0..MaxDailyBlocks, k \in 0..1 :
       \E a \in DailyLabels, b \in DailyLabels, c \in DailyLabels :
         /\ i + j + k <= MaxDailyBlocks
         /\ j = 0 => k = 0
         /\ timeBlocks =
              [n \in 1..(i + j + k) |->
                 Block(DayMs + n * INTERRUPT_INTERVAL, DayMs + (n + 1) * INTERRUPT_INTERVAL)]
         /\ blockTags =
              [n \in 1..(i + j + k) |->
                 Tag(Runs(a, i, b, j, c, k)[n], "", dailyPriority[Today])]

NextDaily ==
  \/ PopupOpen("p1")
  \/ PopupClose("p1")
  \/ ShowDailyReview("p1")
  \/ CloseReview("p1")

SpecDaily == InitDaily /\ [][NextDaily]_vars

\* The weekly review over logs of two days.  Each day has up to MaxDayBlocks
\* blocks; the log holds yesterday's blocks before today's, or after them (a
\* surface that submits yesterday's block late).
WeeklyLabels == {"Work", "Meetings"}

WeeklyLabelSets == {NoLabels, [stored |-> TRUE, list |-> <<"Meetings", "Work">>]}

WeeklyPriorities == {"", "Deep", "Finish the client report"}

\* the n-th block of the day
DayBlock(day, n) ==
  Block((day - 1) * DayMs + n * INTERRUPT_INTERVAL,
        (day - 1) * DayMs + (n + 1) * INTERRUPT_INTERVAL)

InitWeekly ==
  /\ now = DayMs + (MaxDayBlocks + 1) * INTERRUPT_INTERVAL
  /\ isRunning = FALSE
  /\ timerStart = 0
  /\ pendingBlock = NoBlock
  /\ alarm = 0
  /\ alarmQ = <<>>
  /\ badge = ""
  /\ notification = FALSE
  /\ chk = IdleTask
  /\ alh = IdleTask
  /\ ub = "idle"
  /\ en = "idle"
  /\ startH = IdleMsg
  /\ stopH = IdleMsg
  /\ sched = [p \in Popups |-> IdleMsg]
  /\ popup = [p \in Popups |-> ClosedPopup]
  /\ run = NoRun
  /\ op = NoOp
  /\ needsPriority = FALSE
  /\ form = [p \in Popups |-> EmptyForm]
  /\ currentDay = Today
  /\ customLabels \in WeeklyLabelSets
  /\ \E t \in WeeklyPriorities, y \in WeeklyPriorities : dailyPriority = Priorities(t, y)
  /\ \E i \in 0..MaxDayBlocks, j \in 0..MaxDayBlocks, todayFirst \in BOOLEAN :
       \E ys \in [1..i -> WeeklyLabels], ts \in [1..j -> WeeklyLabels] :
         LET yBlocks == [n \in 1..i |-> DayBlock(Yesterday, n)]
             tBlocks == [n \in 1..j |-> DayBlock(Today, n)]
             yTags == [n \in 1..i |-> Tag(ys[n], "", dailyPriority[Yesterday])]
             tTags == [n \in 1..j |-> Tag(ts[n], "", dailyPriority[Today])]
         IN /\ todayFirst => (i > 0 /\ j > 0)
            /\ timeBlocks = IF todayFirst THEN tBlocks \o yBlocks ELSE yBlocks \o tBlocks
            /\ blockTags = IF todayFirst THEN tTags \o yTags ELSE yTags \o tTags

NextWeekly ==
  \/ PopupOpen("p1")
  \/ PopupClose("p1")
  \/ ShowWeeklyReview("p1")
  \/ CloseReview("p1")

SpecWeekly == InitWeekly /\ [][NextWeekly]_vars

\* The engine with its notification: the continuations of updateBadge and
\* ensureNotificationExists run, and the user dismisses or clicks the
\* notification.  The timer, once started, is left running.  The service
\* worker stays alive: setInterval keeps firing and the awaited chrome.* calls
\* and callbacks of the background always complete.

\* the user dismisses the notification
NotificationDismiss ==
  /\ notification
  /\ notification' = FALSE
  /\ UNCHANGED <<now, isRunning, timerStart, pendingBlock, timeBlocks, alarm, alarmQ,
                 badge, chk, alh, ub, en, startH, stopH, sched, popup>>
  /\ run' = NoRun
  /\ op' = [NoOp EXCEPT !.action = "dismissed"]
  /\ UNCHANGED inputVars

\* notifications.onClicked: openPopup (initializePopup runs if the popup was
\* closed), notifications.clear
NotificationClick(p) ==
  /\ notification
  /\ notification' = FALSE
  /\ IF popup[p].screen = "closed"
     THEN /\ popup' = [popup EXCEPT ![p] =
               [screen |-> InitialScreen,
                pc |-> "idle", pendingBlock |-> pendingBlock, blocks |-> <<>>,
                running |-> IF InitialScreen = "menu" THEN isRunning ELSE FALSE]]
          /\ badge' = IF pendingBlock # NoBlock THEN "!" ELSE ""
          /\ form' = [form EXCEPT ![p] = EmptyForm]
     ELSE UNCHANGED <<popup, badge, form>>
  /\ UNCHANGED <<now, isRunning, timerStart, pendingBlock, timeBlocks, alarm, alarmQ,
                 chk, alh, ub, en, startH, stopH, sched>>
  /\ run' = NoRun
  /\ op' = [NoOp EXCEPT !.action = "dismissed"]
  /\ UNCHANGED <<currentDay, blockTags, dailyPriority, needsPriority, customLabels>>

NextNotify ==
  \/ PeriodicCheck
  \/ CheckStep
  \/ UiStep
  \/ Tick
  \/ AlarmStep
  \/ StartTimerCall("p1")
  \/ StartTimerSet
  \/ StartTimerSchedule
  \/ ResumeGet("p1")
  \/ ResumeSet("p1")
  \/ PopupStep("p1")
  \/ NotificationDismiss
  \/ NotificationClick("p1")

SpecNotify ==
  /\ Init
  /\ [][NextNotify]_vars
  /\ SF_vars(PeriodicCheck)
  /\ WF_vars(CheckTimerState)
  /\ WF_vars(CheckTriggerGet)
  /\ WF_vars(CheckTriggerSet)
  /\ WF_vars(AlarmCreate)
  /\ WF_vars(AlarmTriggerGet)
  /\ WF_vars(AlarmTriggerSet)
  /\ WF_vars(StartTimerSet)
  /\ WF_vars(StartTimerSchedule)
  /\ WF_vars(ResumeGet("p1"))
  /\ WF_vars(ResumeSet("p1"))
  /\ WF_vars(EnsureNotificationGet)
  /\ SF_vars(EnsureNotificationGetAll)

----
\* The interrupt on a host on which chrome.notifications.create can fail
\* (chrome.runtime.lastError is set in its callback).  The service worker
\* stays alive, so the callback runs.

\* history: the outcome of a notifications.create call
CreateOutcome(call, ok) ==
  [NoOp EXCEPT !.action = call, !.result = IF ok THEN "created" ELSE "lastError"]

TriggerStoreCreateFailsUnstored(blk) ==
  /\ badge' = "!"
  /\ UNCHANGED <<pendingBlock, notification>>

\* triggerInterrupt lines 190-213 when the create of line 217 fails: the block
\* has been stored and the badge set before the notification is asked for
TriggerStoreCreateFails(blk) ==
  /\ pendingBlock' = blk
  /\ badge' = "!"
  /\ UNCHANGED notification

\* triggerInterrupt, called by the onAlarm listener, after its storage.set,
\* when notifications.create fails: its callback is outstanding
AlarmTriggerSetCreateFails ==
  /\ alh.pc = "trigSet"
  /\ TriggerStoreCreateFails(alh.blk)
  /\ alh' = [alh EXCEPT !.pc = "retry"]
  /\ UNCHANGED <<now, isRunning, timerStart, timeBlocks, alarm, alarmQ,
                 chk, ub, en, startH, stopH, sched, popup>>
  /\ run' = NoRun
  /\ op' = CreateOutcome("create", FALSE)
  /\ UNCHANGED inputVars

\* the callback of line 217 with lastError set: the create without the icon,
\* lines 220-228, which succeeds or fails without anyone looking
AlarmCreateRetry ==
  /\ alh.pc = "retry"
  /\ alh' = IdleTask
  /\ \E ok \in BOOLEAN :
       /\ notification' = (notification \/ ok)
       /\ op' = CreateOutcome("createWithoutIcon", ok)
  /\ UNCHANGED <<now, isRunning, timerStart, pendingBlock, timeBlocks, alarm, alarmQ,
                 badge, chk, ub, en, startH, stopH, sched, popup>>
  /\ run' = NoRun
  /\ UNCHANGED inputVars

\* triggerInterrupt, called by checkTimerState, after its storage.set, when
\* notifications.create fails
CheckTriggerSetCreateFails ==
  /\ chk.pc = "trigSet"
  /\ TriggerStoreCreateFails(chk.blk)
  /\ chk' = [chk EXCEPT !.pc = "retry"]
  /\ UNCHANGED <<now, isRunning, timerStart, timeBlocks, alarm, alarmQ,
                 alh, ub, en, startH, stopH, sched, popup>>
  /\ UNCHANGED run
  /\ op' = CreateOutcome("create", FALSE)
  /\ UNCHANGED inputVars

\* the callback of line 217 with lastError set, in checkTimerState's run
CheckCreateRetry ==
  /\ chk.pc = "retry"
  /\ chk' = IdleTask
  /\ \E ok \in BOOLEAN :
       /\ notification' = (notification \/ ok)
       /\ op' = CreateOutcome("createWithoutIcon", ok)
  /\ UNCHANGED <<now, isRunning, timerStart, pendingBlock, timeBlocks, alarm, alarmQ,
                 badge, alh, ub, en, startH, stopH, sched, popup>>
  /\ UNCHANGED run
  /\ UNCHANGED inputVars

NextAlert ==
  \/ PeriodicCheck
  \/ CheckStep
  \/ CheckTriggerSetCreateFails
  \/ CheckCreateRetry
  \/ Tick
  \/ AlarmStep
  \/ AlarmTriggerSetCreateFails
  \/ AlarmCreateRetry
  \/ MessageStep
  \/ PopupStep("p1")

SpecAlert == Init /\ [][NextAlert]_vars

----
\* Properties

\* the block b is in the log
Logged(log, b) == \E i \in 1..Len(log) : log[i] = b

\* the target of the latest scheduleNextInterrupt call
LatestTarget == IF alarmQ # <<>> THEN alarmQ[Len(alarmQ)] ELSE alarm

\* C1: a label submission appends exactly one TimeBlock and clears the
\* PendingBlock in one step: every step that changes the log appends one block
\* and leaves no PendingBlock behind.
C1_AppendClearsPending ==
  [][timeBlocks' # timeBlocks =>
       /\ Len(timeBlocks') = Len(timeBlocks) + 1
       /\ pendingBlock' = NoBlock]_vars

\* C2: a submission that finds the PendingBlock already cleared changes
\* neither the log nor the timer state.
C2_SecondSubmitChangesNothing ==
  [][\A p \in Popups :
       (popup[p].pc = "saveSet" /\ popup'[p].pc = "clear" /\ pendingBlock = NoBlock)
         => timeBlocks' = timeBlocks]_vars

\* C3: while a PendingBlock exists, timerStart is not set to a new interval
\* and no interrupt is scheduled.
C3_NoNewIntervalWhilePending ==
  [][(pendingBlock # NoBlock /\ pendingBlock' # NoBlock) =>
       /\ timerStart' \in {timerStart, 0}
       /\ Len(alarmQ') <= Len(alarmQ)]_vars

\* C4: whenever persisted isRunning is false, no interrupt alarm is scheduled.
C4_StoppedHasNoAlarm == ~isRunning => alarm = 0

\* C5: once stopTimer has completed and until startTimer is called again, no
\* step stores a PendingBlock.
C5_NoPendingBlockAfterStop ==
  [][(~isRunning /\ stopH.pc = "idle" /\ startH.pc = "idle") =>
       pendingBlock' \in {pendingBlock, NoBlock}]_vars

\* C6: a restart that finds isRunning, no PendingBlock and 15 minutes or more
\* since timerStart ends its initialization, when no other handler and no clock
\* tick comes in between, with the PendingBlock [timerStart, restart time)
\* stored and without having scheduled an alarm.
C6_RestartRecovery ==
  (run.origin = "init" /\ run.case = "due" /\ chk.pc = "idle") =>
     /\ pendingBlock = Block(run.ts, run.at)
     /\ alarmQ = <<>>

C6_Witness ==
  /\ run.origin = "init" /\ run.case = "due" /\ chk.pc = "idle"
  /\ pendingBlock = Block(run.ts, run.at)
  /\ run.at - run.ts >= INTERRUPT_INTERVAL

\* C7: a restart or periodic check that finds isRunning, no PendingBlock and
\* less than 15 minutes since timerStart ends, when no other handler and no
\* clock tick comes in between, with no PendingBlock, timerStart unchanged and
\* the interrupt scheduled for timerStart + 15 minutes.
C7_RescheduleRemaining ==
  (run.case = "early" /\ chk.pc = "idle") =>
     /\ pendingBlock = NoBlock
     /\ timerStart = run.ts
     /\ LatestTarget = run.ts + INTERRUPT_INTERVAL

C7_Witness ==
  /\ run.case = "early" /\ chk.pc = "idle"
  /\ run.at > run.ts
  /\ alarmQ = <<>>
  /\ alarm = run.ts + INTERRUPT_INTERVAL
  /\ alarm < run.at + INTERRUPT_INTERVAL

\* C8: on a host that drops the alarm, with the periodic check running, a
\* running timer with no PendingBlock and 15 minutes elapsed since timerStart
\* leads to a PendingBlock, unless the timer is stopped or started anew.
C8_SweepRecoversDroppedAlarm ==
  (isRunning /\ pendingBlock = NoBlock /\ timerStart # 0
     /\ now - timerStart >= INTERRUPT_INTERVAL)
  ~> (pendingBlock # NoBlock \/ ~isRunning \/ now - timerStart < INTERRUPT_INTERVAL)

C8_Witness ==
  /\ run.origin = "sweep" /\ run.case = "due" /\ chk.pc = "idle"
  /\ isRunning
  /\ alarm = 0
  /\ pendingBlock = Block(run.ts, run.at)

\* C9: a stored PendingBlock is removed or replaced only by the step that
\* clears it after a TimeBlock with its start and end has been appended.
C9_PendingBlockOnlyClearedByLabel ==
  [][(pendingBlock # NoBlock /\ pendingBlock' # pendingBlock) =>
       /\ pendingBlock' = NoBlock
       /\ Logged(timeBlocks', pendingBlock)]_vars

\* C10: whenever a step stores a new PendingBlock, no TimeBlock already in the
\* log has the same start.
C10_NoIntervalOfferedTwice ==
  [][(pendingBlock' # pendingBlock /\ pendingBlock' # NoBlock) =>
       \A i \in 1..Len(timeBlocks) : timeBlocks[i].start # pendingBlock'.start]_vars

\* the number of entries of the log that are the block b
Copies(log, b) == Cardinality({i \in 1..Len(log) : log[i] = b})

\* C11: when two surfaces submit a label for the same PendingBlock with their
\* steps interleaved, the log holds one TimeBlock for that block: no state has
\* both submissions past their save with two entries for the block in the log.
C11_OneBlockForInterleavedSubmits ==
  \A p, q \in Popups :
    (p # q /\ popup[p].pc = "clear" /\ popup[q].pc = "clear"
       /\ popup[p].pendingBlock = popup[q].pendingBlock)
      => Copies(timeBlocks, popup[p].pendingBlock) <= 1

\* C12: startTimer arriving with the timer stopped writes isRunning = true and
\* timerStart = now in one step (before it neither has changed, after it both
\* have), and when it has reported success exactly one interrupt is scheduled,
\* for now + 15 minutes.
C12_StartTimer ==
  (op.action = "startTimer" /\ ~op.running) =>
     /\ startH.pc = "set" => (~isRunning /\ timerStart = op.ts)
     /\ startH.pc = "verify" => (isRunning /\ timerStart = op.at)
     /\ op.result = "success" =>
          /\ isRunning /\ timerStart = op.at
          /\ \/ alarmQ = <<op.at + INTERRUPT_INTERVAL>> /\ alarm = 0
             \/ alarmQ = <<>> /\ alarm = op.at + INTERRUPT_INTERVAL

C12_Witness ==
  /\ op.action = "startTimer" /\ ~op.running /\ op.result = "success"
  /\ isRunning /\ timerStart = op.at
  /\ alarmQ = <<>> /\ alarm = op.at + INTERRUPT_INTERVAL

\* C13: stopTimer arriving with the timer running and an interrupt scheduled
\* ends, when it has reported success, with no alarm, isRunning = false and
\* timerStart = null, and with the PendingBlock and the log as it found them.
C13_StopTimer ==
  (op.action = "stopTimer" /\ op.running /\ op.result = "success") =>
     /\ ~isRunning /\ timerStart = 0
     /\ alarm = 0 /\ alarmQ = <<>>
     /\ pendingBlock = op.pending
     /\ timeBlocks = op.blocks

C13_Witness ==
  /\ op.action = "stopTimer" /\ op.running /\ op.result = "success"
  /\ op.alarm # 0 /\ op.ts # 0 /\ op.pending = NoBlock /\ now > op.ts
  /\ ~isRunning /\ timerStart = 0 /\ alarm = 0
  /\ pendingBlock = NoBlock

\* C15: a step of the stopTimer handler taken while a PendingBlock is stored
\* leaves the stored PendingBlock as it is.
C15_StopKeepsPendingBlock ==
  [][(pendingBlock # NoBlock /\ stopH' # stopH /\ (stopH.pc = "set" \/ stopH'.pc = "set"))
       => pendingBlock' = pendingBlock]_vars

C15_Witness ==
  /\ op.action = "stopTimer" /\ op.result = "success"
  /\ op.pending # NoBlock
  /\ ~isRunning /\ pendingBlock = op.pending

\* C14: a label submission that clears the PendingBlock while isRunning is true
\* ends, when the background has answered its scheduleNextInterrupt message,
\* with the timer running, no PendingBlock, badge and notification cleared,
\* timerStart the time of the resolution and one interrupt scheduled for
\* timerStart + 15 minutes.
C14_LabelResumesRunning ==
  (op.action = "label" /\ op.running /\ op.result = "success") =>
     /\ isRunning
     /\ pendingBlock = NoBlock
     /\ badge = "" /\ notification = FALSE
     /\ timerStart = op.at
     /\ \/ alarmQ = <<timerStart + INTERRUPT_INTERVAL>> /\ alarm = 0
        \/ alarmQ = <<>> /\ alarm = timerStart + INTERRUPT_INTERVAL

C14_Witness ==
  /\ op.action = "label" /\ op.running /\ op.result = "success"
  /\ op.pending # NoBlock /\ op.at > op.ts
  /\ Logged(timeBlocks, op.pending)
  /\ timerStart = op.at
  /\ alarmQ = <<>> /\ alarm = op.at + INTERRUPT_INTERVAL

\* C16: in every reachable state, isRunning = true implies that timerStart is
\* not null.
C16_RunningHasTimerStart == isRunning => timerStart # 0

\* a stopTimer and a label resolution both in the middle of their writes, with
\* the timer still running
C16_Witness ==
  /\ isRunning /\ timerStart # 0
  /\ stopH.pc = "set"
  /\ \E p \in Popups : sched[p].pc = "set"

\* C17: every step leaves in the log every block it found there (the part of
\* append-only that does not depend on the order of the entries).
C17_LoggedBlocksStay ==
  [][\A i \in 1..Len(timeBlocks) : Logged(timeBlocks', timeBlocks[i])]_vars

\* C18: with the periodic check running, a stored PendingBlock whose
\* notification is absent leads to the notification being on screen again,
\* unless the block is labelled first.
C18_NotificationRecreated ==
  (pendingBlock # NoBlock /\ ~notification) ~> (notification \/ pendingBlock = NoBlock)

C18_Witness ==
  /\ op.action = "dismissed"
  /\ en = "idle"
  /\ pendingBlock # NoBlock /\ notification

\* C19: when startTimer or stopTimer has answered with a failure, isRunning,
\* timerStart and the scheduled alarm are what they were when the message
\* arrived.
C19_FailedWriteChangesNothing ==
  op.result = "failure" =>
     /\ isRunning = op.running
     /\ timerStart = op.ts
     /\ alarm = op.alarm

\* What the input handlers persist: the log, the PendingBlock, today's
\* priority, the needsPriority flag and the label set
Persisted == <<timeBlocks, pendingBlock, dailyPriority, needsPriority, GetLabels>>

\* the label submission popup p holds is invalid: no label, or a note of more
\* than 100 characters
InvalidLabelSubmission(p) ==
  form[p].selectedLabel = "" \/ form[p].note.pad + CoreLen(form[p].note.core) > 100

\* the priority popup p holds is empty or whitespace only
InvalidPriority(p) == form[p].priority.core = ""

\* the name is empty, has more than 50 characters or is a label of the set
InvalidName(t) == t.core = "" \/ CoreLen(t.core) > 50 \/ Includes(GetLabels, t.core)

\* C20: invalid input is rejected before any persisted state changes: no step
\* of the label submission with no label or a note over 100 characters, of the
\* priority submission with an empty or whitespace-only text, or of a label
\* add or rename with an empty, over-50-character or duplicate name changes
\* the log, the PendingBlock, the priority, needsPriority or the label set
C20_InvalidInputRejected ==
  [][\A p \in Popups :
       /\ (/\ \/ op'.action = "submitLabel" /\ op'.by = p
              \/ popup[p].pc = "clear" /\ popup'[p].pc # "clear"
           /\ InvalidLabelSubmission(p)) => Persisted' = Persisted
       /\ (op'.action = "submitPriority" /\ op'.by = p /\ InvalidPriority(p))
            => Persisted' = Persisted
       /\ (op'.action = "addLabel" /\ op'.by = p /\ InvalidName(form[p].newLabel))
            => Persisted' = Persisted
       /\ (op'.action = "renameLabel" /\ op'.by = p /\ InvalidName(form[p].editText))
            => Persisted' = Persisted]_vars

\* the add handler has rejected the name of an existing label after its read
\* of the label set, and the set is as it was
C20_Witness ==
  /\ op.action = "addLabel"
  /\ popup["p1"].pc = "idle"
  /\ form["p1"].newLabel = Text("Work", 1)
  /\ form["p1"].alert = "This label already exists."
  /\ customLabels = NoLabels

\* C29: every PendingBlock stored by an interrupt (alarm, periodic check or
\* restart recovery, with stop and label resolution interleaved) spans at
\* least 15 minutes: each step that stores a PendingBlock stores one whose
\* end - start is at least INTERRUPT_INTERVAL.
C29_PendingBlockSpansInterval ==
  [][(pendingBlock' # pendingBlock /\ pendingBlock' # NoBlock)
       => pendingBlock'.end - pendingBlock'.start >= INTERRUPT_INTERVAL]_vars

\* the step is the storage write of the startTimer or of the stopTimer handler
StartStopWrite ==
  \/ startH.pc = "set" /\ startH'.pc = "verify"
  \/ stopH.pc = "set" /\ stopH' = IdleMsg

\* the step is the storage write of a scheduleNextInterrupt message handler
ResolutionWrite == \E p \in Popups : sched[p].pc = "set" /\ sched'[p] = IdleMsg

C28_AppendedBlockIsPersistedPending ==
  [][Len(timeBlocks') > Len(timeBlocks) =>
       /\ pendingBlock # NoBlock
       /\ timeBlocks'[Len(timeBlocks')] = Block(pendingBlock.start, pendingBlock.end)]_vars

\* the list has no name twice
NoDuplicates(list) == \A i, j \in 1..Len(list) : list[i] = list[j] => i = j

\* C21: after any sequence of add-label, rename-label and delete-label
\* operations the stored LabelSet contains no duplicate names.
C21_LabelSetHasNoDuplicates == NoDuplicates(GetLabels)

\* C22: adding, renaming or deleting a label leaves the TimeBlock log
\* unchanged: no step of these handlers changes the blocks of the log or their
\* label, note and priority fields, also when the label of a stored TimeBlock
\* is no longer in the LabelSet.
C22_LabelEditsKeepLog ==
  [][op'.action \in {"addLabel", "renameLabel", "deleteLabel"}
       => (timeBlocks' = timeBlocks /\ blockTags' = blockTags)]_vars

\* the label Work of the logged TimeBlock has been renamed away and the block
\* still carries it
C22_Witness ==
  /\ op.action = "renameLabel"
  /\ popup["p1"].pc = "render"
  /\ ~Includes(GetLabels, "Work")
  /\ Len(blockTags) = 1 /\ blockTags[1].label = "Work"

\* C23: setting the priority of a day that already has one replaces it: after
\* the write of setTodayPriority the DailyPriority map holds for that day the
\* value just written (a map has one entry per day), and the entries of the
\* other days are as before.
C23_PriorityReplaced ==
  [][\A p \in Popups :
       (popup[p].pc = "prioSet" /\ popup'[p].pc = "needsSet") =>
          /\ dailyPriority'[Today] = Trim(form[p].priority).core
          /\ \A d \in Days \ {Today} : dailyPriority'[d] = dailyPriority[d]]_vars

\* p1's submission has set today's priority and p2's submission, made on the
\* prompt it still showed, has then written Deep over it; yesterday's entry
\* is still Plan
C23_Witness ==
  /\ popup["p1"].screen = "menu"
  /\ popup["p2"].pc = "needsSet"
  /\ form["p2"].priority = Text("Deep", 1)
  /\ dailyPriority = Priorities("Deep", "Plan")
  /\ blockTags = <<>> /\ currentDay = Today /\ ~needsPriority

FirstOfTied(keys, blockLabels) ==
  keys[CHOOSE i \in 1..Len(keys) :
         /\ \A j \in 1..Len(keys) :
              LabelHours(blockLabels, keys[j]) <= LabelHours(blockLabels, keys[i])
         /\ \A j \in 1..(i - 1) :
              LabelHours(blockLabels, keys[j]) < LabelHours(blockLabels, keys[i])]

\* C25: when several labels tie for the most hours, the dominant label of
\* dailyInsight is the first of them in the order of the label-hours mapping
\* (the label set, then the other labels as the blocks have them): for a
\* priority without keywords the sentence names that label.
C25_DominantIsFirstOfTied ==
  \A p \in Popups :
    (/\ popup[p].screen = "dailyReview"
     /\ form[p].insight.kind = "sentence"
     /\ KeywordsIn(form[p].insight.priority) = {})
      => form[p].insight.label =
           ToLowerCase(FirstOfTied(LabelKeys(GetLabels, LabelsAt(TodayBlocks)),
                                   LabelsAt(TodayBlocks)))

\* the blocks of today that carry a label whose lower-case form is `lower`
BlocksTodayIn(lower) ==
  Cardinality({i \in 1..Len(timeBlocks) :
                 /\ timeBlocks[i].start \div DayMs = now \div DayMs
                 /\ ToLowerCase(blockTags[i].label) = lower})

\* C26 (as the spec example states it): the hours figure of the daily insight
\* sentence is exactly blockCount x 0.25, so that three Work blocks read
\* "0.75 hours".  The figure is held in tenths; the code prints one decimal.
C26_HoursAreQuarterHours ==
  \A p \in Popups :
    (popup[p].screen = "dailyReview" /\ form[p].insight.kind = "sentence")
      => 10 * form[p].insight.hours = 25 * BlocksTodayIn(form[p].insight.label)

\* C26 (amended): the hours figure of the daily insight sentence is
\* blockCount x 0.25 printed with one decimal place, the nearest tenth and the
\* larger one of two equally near: three Work blocks read "0.8 hours".
C26_HoursAreRoundedToOneDecimal ==
  \A p \in Popups :
    (popup[p].screen = "dailyReview" /\ form[p].insight.kind = "sentence")
      => LET hundredths == 25 * BlocksTodayIn(form[p].insight.label)
             tenths == form[p].insight.hours
         IN /\ hundredths > 0
            /\ 10 * tenths - 5 <= hundredths
            /\ hundredths < 10 * tenths + 5

\* the example of the spec: "Finish the client report", three Work blocks and
\* one Meetings block today, reviewed: the sentence without "but", 0.8 hours
C26_Witness ==
  /\ popup["p1"].screen = "dailyReview"
  /\ dailyPriority[Today] = "Finish the client report"
  /\ Len(timeBlocks) = 4
  /\ BlocksTodayIn("work") = 3
  /\ BlocksTodayIn("meetings") = 1
  /\ form["p1"].insight =
       [kind |-> "sentence", priority |-> "Finish the client report", but |-> FALSE,
        hours |-> 8, label |-> "work"]

\* the label the claim calls the avoidance label
AvoidanceLabel ==
  IF \E k \in 1..Len(GetLabels) : GetLabels[k] = "Break" THEN "Break"
  ELSE IF \E k \in 1..Len(GetLabels) : GetLabels[k] = "Other" THEN "Other"
  ELSE GetLabels[Len(GetLabels)]

\* the label of the block that is k-th in ascending order of start (the starts
\* of a log are distinct)
LabelAtRank(k) ==
  LET i == CHOOSE i \in 1..Len(timeBlocks) :
             Cardinality({j \in 1..Len(timeBlocks) :
                            timeBlocks[j].start <= timeBlocks[i].start}) = k
  IN blockTags[i].label

\* the labels of the log in ascending order of start
RankedLabels == [k \in 1..Len(timeBlocks) |-> LabelAtRank(k)]

\* the lengths of the runs of consecutive avoidance-label entries, and 0
AvoidanceRuns(ranked) ==
  {r \in 0..Len(ranked) :
     \/ r = 0
     \/ \E a \in 1..(Len(ranked) - r + 1) :
          \A k \in a..(a + r - 1) : ranked[k] = AvoidanceLabel}

\* C27: the longest avoidance streak the weekly review shows is 0.25 hours
\* times the length of the longest run of consecutive blocks, in ascending
\* order of start, that carry the avoidance label: 'Break' if the label set
\* has it, else 'Other' if the label set has it, else the last label.
C27_LongestAvoidanceStreak ==
  \A p \in Popups :
    popup[p].screen = "weeklyReview" =>
      /\ form[p].weekly.kind = "weekly"
      /\ LET runs == AvoidanceRuns(RankedLabels)
         IN \E r \in runs :
              /\ \A q \in runs : q <= r
              /\ form[p].weekly.longestAvoidanceStreak = 25 * r

\* the example of the spec, [Break, Break, Work, Break, Break, Break] in
\* ascending order of start, reviewed: 0.75 hours.  The log holds the blocks
\* in another order, in which four Break blocks are consecutive.
C27_Witness ==
  /\ popup["p1"].screen = "weeklyReview"
  /\ Len(timeBlocks) = 6
  /\ RankedLabels = <<"Break", "Break", "Work", "Break", "Break", "Break">>
  /\ [k \in 1..6 |-> blockTags[k].label]
       = <<"Break", "Break", "Break", "Break", "Work", "Break">>
  /\ AvoidanceLabel = "Break"
  /\ form["p1"].weekly.longestAvoidanceStreak = 75

\* C31: when creating the interrupt notification fails, the interrupt still
\* takes effect: the step that meets the failure has stored the PendingBlock
\* (and set the badge), the failure's callback attempts the notification
\* without the icon and changes nothing else, and while that callback is
\* outstanding the PendingBlock is only ever cleared by a label submission.
C31_FailedAlertKeepsInterrupt ==
  [][/\ (alh.pc = "trigSet" /\ alh'.pc = "retry")
          => (pendingBlock' = alh.blk /\ pendingBlock' # NoBlock /\ badge' = "!")
     /\ (chk.pc = "trigSet" /\ chk'.pc = "retry")
          => (pendingBlock' = chk.blk /\ pendingBlock' # NoBlock /\ badge' = "!")
     /\ ((alh.pc = "retry" /\ alh'.pc # "retry") \/ (chk.pc = "retry" /\ chk'.pc # "retry"))
          => /\ op'.action = "createWithoutIcon"
             /\ UNCHANGED <<pendingBlock, isRunning, timerStart, timeBlocks, badge>>
     /\ ((alh.pc = "retry" \/ chk.pc = "retry") /\ pendingBlock' = NoBlock)
          => (pendingBlock = NoBlock \/ \E p \in Popups : popup[p].pc = "clear")
    ]_vars

\* the notification failed, the one without the icon was created, and the
\* interval is waiting for its label
C31_Witness ==
  /\ op.action = "createWithoutIcon" /\ op.result = "created"
  /\ pendingBlock # NoBlock
  /\ badge = "!"
  /\ notification

\* the labels of today's blocks, the dominant label the code finds among them,
\* and the blocks of today with the label l
TodayLabels == LabelsAt(TodayBlocks)

Dominant == ReduceDominant(LabelKeys(GetLabels, TodayLabels), TodayLabels)

CountToday(l) == Cardinality({k \in 1..Len(TodayLabels) : TodayLabels[k] = l})

\* the labels other than the dominant one that have blocks today
OtherLabels == {TodayLabels[k] : k \in 1..Len(TodayLabels)} \ {Dominant}

\* the other labels with the most blocks
SecondRanked == {l \in OtherLabels : \A m \in OtherLabels : CountToday(m) <= CountToday(l)}

\* C32: when the priority matches the dominant label's keywords, the daily
\* insight reports a mismatch ("but") against a second-ranked label, one with
\* the most hours among the other labels, if that label has at least 1.0
\* hours (four blocks), and otherwise states the dominant label's hours
\* without "but".
C32_MatchingPriority ==
  \A p \in Popups :
    (/\ popup[p].screen = "dailyReview"
     /\ form[p].insight.kind = "sentence"
     /\ PriorityKeywords(ToLowerCase(Dominant)) \cap KeywordsIn(dailyPriority[Today]) # {})
      => IF \E l \in SecondRanked : CountToday(l) >= 4
         THEN /\ form[p].insight.but
              /\ \E l \in SecondRanked :
                   /\ form[p].insight.label = ToLowerCase(l)
                   /\ form[p].insight.hours = (25 * CountToday(l) + 5) \div 10
         ELSE /\ ~form[p].insight.but
              /\ form[p].insight.label = ToLowerCase(Dominant)
              /\ form[p].insight.hours = (25 * CountToday(Dominant) + 5) \div 10

\* "Team sync" matches Meetings, the dominant label with one hour; Work, with
\* one hour as well, is second-ranked before Deep with a quarter
C32_Witness ==
  /\ popup["p1"].screen = "dailyReview"
  /\ dailyPriority[Today] = "Team sync"
  /\ GetLabels = <<"Deep", "Work", "Meetings">>
  /\ CountToday("Meetings") = 4 /\ CountToday("Work") = 4 /\ CountToday("Deep") = 1
  /\ form["p1"].insight =
       [kind |-> "sentence", priority |-> "Team sync", but |-> TRUE, hours |-> 10,
        label |-> "work"]

\* the five names that have a keyword list
CanonicalNames == {"work", "meetings", "break", "planning", "other"}

\* C33: when the priority does not match the dominant label's keywords, which
\* is always so when the dominant label is not one of the five canonical
\* names, the daily insight reports the dominant label and its hours as the
\* mismatch ("but").
C33_NonMatchingPriority ==
  \A p \in Popups :
    (/\ popup[p].screen = "dailyReview"
     /\ dailyPriority[Today] # ""
     /\ TodayLabels # <<>>
     /\ \/ ToLowerCase(Dominant) \notin CanonicalNames
        \/ PriorityKeywords(ToLowerCase(Dominant)) \cap KeywordsIn(dailyPriority[Today]) = {})
      => form[p].insight =
           [kind |-> "sentence", priority |-> dailyPriority[Today], but |-> TRUE,
            hours |-> (25 * CountToday(Dominant) + 5) \div 10,
            label |-> ToLowerCase(Dominant)]

\* the days that have blocks in the log, the position of a day's first block
\* (the order of the day groups), the dominant label of a day and its hours
LoggedDays == {timeBlocks[k].start \div DayMs + 1 : k \in 1..Len(timeBlocks)}

FirstBlockOf(d) ==
  CHOOSE k \in 1..Len(timeBlocks) :
    /\ timeBlocks[k].start \div DayMs + 1 = d
    /\ \A m \in 1..(k - 1) : timeBlocks[m].start \div DayMs + 1 # d

LabelsOfDay(d) ==
  LabelsAt(SelectSeq(Indexes, LAMBDA k : timeBlocks[k].start \div DayMs + 1 = d))

DominantOfDay(d) == ReduceDominant(LabelKeys(GetLabels, LabelsOfDay(d)), LabelsOfDay(d))

DominantHours(d) ==
  25 * Cardinality({k \in 1..Len(LabelsOfDay(d)) : LabelsOfDay(d)[k] = DominantOfDay(d)})

\* the days with a declared priority that does not match their dominant label
MismatchDays ==
  {d \in LoggedDays :
     /\ dailyPriority[d] # ""
     /\ PriorityKeywords(ToLowerCase(DominantOfDay(d))) \cap KeywordsIn(dailyPriority[d]) = {}}

\* C34: the biggest mismatch of the weekly review is the first day, in the
\* order of the day groups, that attains the largest dominant-label hours among
\* the days that have a declared priority not matching their dominant label;
\* days without a priority are ignored; it is null when there is no such day.
C34_BiggestMismatch ==
  \A p \in Popups :
    (popup[p].screen = "weeklyReview" /\ form[p].weekly.kind = "weekly") =>
      IF MismatchDays = {}
      THEN form[p].weekly.biggestMismatch = NoMismatch
      ELSE \E d \in MismatchDays :
             /\ \A e \in MismatchDays : DominantHours(e) <= DominantHours(d)
             /\ \A e \in MismatchDays :
                  DominantHours(e) = DominantHours(d) => FirstBlockOf(d) <= FirstBlockOf(e)
             /\ form[p].weekly.biggestMismatch =
                  [day |-> d, priority |-> dailyPriority[d], actual |-> DominantOfDay(d),
                   hours |-> DominantHours(d)]

\* both days mismatch with half an hour of their dominant label; the log
\* holds today's blocks first, and today is reported
C34_Witness ==
  /\ popup["p1"].screen = "weeklyReview"
  /\ MismatchDays = {Yesterday, Today}
  /\ DominantHours(Yesterday) = 50 /\ DominantHours(Today) = 50
  /\ FirstBlockOf(Today) = 1
  /\ form["p1"].weekly.biggestMismatch.day = Today

\* no handler is between two of its awaits and no callback is outstanding
Quiescent == Active = 0 /\ ub = "idle" /\ en = "idle"

\* C35: in every quiescent state the badge shows "!" if and only if a
\* PendingBlock is persisted.
C35_BadgeShowsPending == Quiescent => (badge = "!" <=> pendingBlock # NoBlock)

\* C36: a label submission that clears the PendingBlock while isRunning is
\* false ends, when the background has answered its scheduleNextInterrupt
\* message, with the block in the log and no PendingBlock, and with the timer
\* as it was: isRunning false, timerStart not set, no alarm scheduled or changed.
C36_LabelWhileStopped ==
  (op.action = "label" /\ ~op.running /\ op.result = "success") =>
     /\ timeBlocks = op.blocks /\ op.blocks # <<>>
     /\ pendingBlock = NoBlock
     /\ ~isRunning
     /\ timerStart = op.ts
     /\ alarm = op.alarm /\ alarmQ = <<>>

\* the timer was stopped while a block was waiting for its label; the block
\* has been labelled and the timer is stopped, without start time or alarm
C36_Witness ==
  /\ op.action = "label" /\ ~op.running /\ op.result = "success"
  /\ op.pending # NoBlock
  /\ Logged(timeBlocks, op.pending)
  /\ pendingBlock = NoBlock
  /\ ~isRunning /\ timerStart = 0 /\ alarm = 0 /\ alarmQ = <<>>

C38_LastLabelResetsToDefaults ==
  [][\A p \in Popups :
       (/\ popup[p].pc = "delSet" /\ popup'[p].pc = "render"
        /\ Len(customLabels.list) = 1 /\ form[p].delIndex = 1)
         => customLabels'.list = <<"Work", "Meetings", "Break", "Planning", "Other">>]_vars

====
